---------------------------- MODULE Spec2Model ----------------------------
(***************************************************************************)
(* A model of the rule-first support agent: the issue policy (policy.py),  *)
(* the intent classifier and dialogue controller (agent.py), the ticket    *)
(* store (ticketing.py, db.py) and the ingest entry point (flask_app.py).  *)
(* Python strings are TLA+ strings; Python's None is the string None for   *)
(* string-valued fields and 0 for integer ids (both are falsy in the code).*)
(***************************************************************************)
EXTENDS Integers, Sequences, FiniteSets, TLC

VARIABLES
    SESSION_CACHE,  \* agent.py: session id -> facts, for the sessions that exist
    customers,      \* db.py: the customers table, row id = position
    tickets,        \* db.py: the tickets table, row id = position
    messages,       \* db.py: the messages table, row id = position
    last,           \* the call that ran last: its inputs and what it returned
    trail,          \* per session id: its latest turns, oldest first
    calls,          \* the ingest requests in flight, one per server thread
    served,         \* how many requests the process has served
    pol,            \* policy.py under test: [label, status, code, allowed, done]
    scan            \* the text helpers of agent.py under test: [text, faqs, intent, hit, pc];
                    \* under SpecFaq the faq table and the cache of _load_faqs

vars == <<SESSION_CACHE, customers, tickets, messages, last, trail, calls, served, pol, scan>>

None == "<None>"

(***************************************************************************)
(* Python string primitives.                                               *)
(***************************************************************************)
LowerOf ==
    [c \in {"A","B","C","D","E","F","G","H","I","J","K","L","M","N","O","P",
            "Q","R","S","T","U","V","W","X","Y","Z"} |->
        CASE c = "A" -> "a" [] c = "B" -> "b" [] c = "C" -> "c" [] c = "D" -> "d"
          [] c = "E" -> "e" [] c = "F" -> "f" [] c = "G" -> "g" [] c = "H" -> "h"
          [] c = "I" -> "i" [] c = "J" -> "j" [] c = "K" -> "k" [] c = "L" -> "l"
          [] c = "M" -> "m" [] c = "N" -> "n" [] c = "O" -> "o" [] c = "P" -> "p"
          [] c = "Q" -> "q" [] c = "R" -> "r" [] c = "S" -> "s" [] c = "T" -> "t"
          [] c = "U" -> "u" [] c = "V" -> "v" [] c = "W" -> "w" [] c = "X" -> "x"
          [] c = "Y" -> "y" [] c = "Z" -> "z"]

UpperLetters == DOMAIN LowerOf
LowerLetters == {LowerOf[c] : c \in UpperLetters}
Digits == {"0","1","2","3","4","5","6","7","8","9"}
Whitespace == {" ", "\t", "\n", "\r"}

Char(s, i) == SubSeq(s, i, i)

LowerChar(c) == IF c \in UpperLetters THEN LowerOf[c] ELSE c

UpperChar(c) ==
    IF c \in LowerLetters THEN CHOOSE u \in UpperLetters : LowerOf[u] = c ELSE c

RECURSIVE MapChars(_, _, _)
MapChars(s, i, up) ==
    IF i > Len(s) THEN ""
    ELSE (IF up THEN UpperChar(Char(s, i)) ELSE LowerChar(Char(s, i)))
         \o MapChars(s, i + 1, up)

\* str.lower()
Lower(s) == MapChars(s, 1, FALSE)

\* str.upper()
Upper(s) == MapChars(s, 1, TRUE)

\* k in t (substring containment), k non-empty
Contains(t, k) ==
    \E i \in 1..(Len(t) - Len(k) + 1) : SubSeq(t, i, i + Len(k) - 1) = k

\* any(k in t for k in keys)
ContainsAny(t, keys) == \E k \in keys : Contains(t, k)

\* str.strip(chars): drop leading and trailing characters of the set
StripChars(s, chars) ==
    LET keep == {i \in 1..Len(s) : Char(s, i) \notin chars}
    IN  IF keep = {} THEN ""
        ELSE SubSeq(s, CHOOSE i \in keep : \A j \in keep : i <= j,
                       CHOOSE i \in keep : \A j \in keep : i >= j)

\* str.strip()
Strip(s) == StripChars(s, Whitespace)

\* s[:n]
Take(s, n) == SubSeq(s, 1, IF Len(s) < n THEN Len(s) ELSE n)

(***************************************************************************)
(* policy.py                                                               *)
(***************************************************************************)
RECURSIVE SlugFrom(_, _, _)
SlugFrom(s, i, gap) ==
    IF i > Len(s) THEN ""
    ELSE IF Char(s, i) \in LowerLetters \cup Digits
         THEN (IF gap THEN " " ELSE "") \o Char(s, i) \o SlugFrom(s, i + 1, FALSE)
         ELSE SlugFrom(s, i + 1, TRUE)

\* re.sub(r"[^a-z0-9]+", " ", s.lower()).strip(): every run of other
\* characters becomes one space, and the spaces at both ends are dropped
\* (a run at the start would give a leading space, which strip removes).
_slug(s) ==
    LET low == Lower(s)
        first == {i \in 1..Len(low) : Char(low, i) \in LowerLetters \cup Digits}
    IN  IF first = {} THEN ""
        ELSE SlugFrom(low, CHOOSE i \in first : \A j \in first : i <= j, FALSE)

\* the rows of normalize_issue's table, in the order the loop visits them
pairs == <<
    << {"defect", "defective", "broken", "damage", "damaged"}, "DEFECTIVE_ITEM" >>,
    << {"wrong item", "wrong product", "different brand", "mismatch", "incorrect item"}, "WRONG_ITEM" >>,
    << {"missing item", "partial delivery", "not received", "not delivered", "missing"}, "MISSING_ITEM" >>,
    << {"damaged in transit", "transit damage"}, "DAMAGED_IN_TRANSIT" >>,
    << {"return policy", "returns", "exchange", "return window"}, "RETURN_POLICY" >>,
    << {"refund timelines", "refund", "refunds"}, "REFUND_TIMELINES" >>,
    << {"payment issues", "payment", "payment issue", "debited", "charged", "transaction", "double charged"}, "PAYMENT_ISSUES" >>,
    << {"delivery time & shipping", "delivery time", "shipping", "delivery"}, "DELIVERY_SHIPPING" >>,
    << {"order tracking", "tracking", "track"}, "ORDER_TRACKING" >>,
    << {"cancellation", "cancel", "order cancel"}, "CANCELLATION" >>,
    << {"address change", "change address", "address update"}, "ADDRESS_CHANGE" >>,
    << {"cash on delivery", "cod"}, "CASH_ON_DELIVERY" >>,
    << {"invoice / gst", "invoice", "gst", "bill", "billing"}, "INVOICE_GST" >>,
    << {"warranty"}, "WARRANTY" >>,
    << {"size & fit", "size", "fit", "size chart"}, "SIZE_FIT" >>,
    << {"human assistance", "human agent", "human support"}, "HUMAN_ASSISTANCE" >> >>

\* re.fullmatch(r"[A-Z0-9_]+", label)
looks_like_code(label) ==
    /\ Len(label) >= 1
    /\ \A i \in 1..Len(label) : Char(label, i) \in UpperLetters \cup Digits \cup {"_"}

\* lines 39-47: the code of the first row among hit, else the label itself
\* when it looks like a code, else OTHER
CodeAmong(label, hit) ==
    IF hit # {} THEN pairs[CHOOSE r \in hit : \A q \in hit : r <= q][2]
    ELSE IF looks_like_code(label) THEN label ELSE "OTHER"

\* the rows with a key that occurs in the slug s
RowsIn(s) == {r \in 1..Len(pairs) : ContainsAny(s, pairs[r][1])}

normalize_issue(label) ==
    IF label = None \/ label = "" THEN "OTHER" ELSE CodeAmong(label, RowsIn(_slug(label)))

\* (status or "").strip().upper()
_norm_status(status) ==
    Upper(Strip(IF status = None THEN "" ELSE status))

PRE_DISPATCH == {"PLACED", "PROCESSING", "PACKED"}
IN_TRANSIT == {"SHIPPED", "OUT_FOR_DELIVERY"}
POST_DELIV == {"DELIVERED"}

ALWAYS == {"PAYMENT_ISSUES", "REFUND_TIMELINES", "RETURN_POLICY", "DELIVERY_SHIPPING",
           "ORDER_TRACKING", "CASH_ON_DELIVERY", "INVOICE_GST", "HUMAN_ASSISTANCE",
           "WARRANTY", "SIZE_FIT", "OTHER"}

\* a plausible slip: unknown stages treated as permissive for gated codes too
is_allowed_permissive(issue_code, order_status) ==
    LET code == normalize_issue(issue_code)
        st == _norm_status(order_status)
        known == PRE_DISPATCH \cup IN_TRANSIT \cup POST_DELIV
    IN  IF code \in ALWAYS THEN TRUE
        ELSE IF st \notin known THEN TRUE
        ELSE IF code \in {"ADDRESS_CHANGE", "CANCELLATION"} THEN st \in PRE_DISPATCH
        ELSE IF code \in {"DEFECTIVE_ITEM", "WRONG_ITEM"} THEN st \in POST_DELIV
        ELSE IF code \in {"MISSING_ITEM", "DAMAGED_IN_TRANSIT"}
             THEN st \in IN_TRANSIT \cup POST_DELIV
        ELSE TRUE

\* a plausible slip: a status outside the three stages refused before the
\* always-allowed codes are looked at
StageAllows_stage_first(code, st) ==
    IF st \notin PRE_DISPATCH \cup IN_TRANSIT \cup POST_DELIV THEN FALSE
    ELSE IF code \in ALWAYS THEN TRUE
    ELSE IF code \in {"ADDRESS_CHANGE", "CANCELLATION"} THEN st \in PRE_DISPATCH
    ELSE IF code \in {"DEFECTIVE_ITEM", "WRONG_ITEM"} THEN st \in POST_DELIV
    ELSE IF code \in {"MISSING_ITEM", "DAMAGED_IN_TRANSIT"}
         THEN st \in IN_TRANSIT \cup POST_DELIV
    ELSE TRUE

\* a plausible slip: the post-delivery codes gated like the in-transit ones
StageAllows_transit_too(code, st) ==
    IF code \in ALWAYS THEN TRUE
    ELSE IF code \in {"ADDRESS_CHANGE", "CANCELLATION"} THEN st \in PRE_DISPATCH
    ELSE IF code \in {"DEFECTIVE_ITEM", "WRONG_ITEM", "MISSING_ITEM", "DAMAGED_IN_TRANSIT"}
         THEN st \in IN_TRANSIT \cup POST_DELIV
    ELSE TRUE

\* lines 77-94: the tests on the normalised code and status, in order
StageAllows(code, st) ==
    IF code \in ALWAYS THEN TRUE
    ELSE IF code = "ADDRESS_CHANGE" THEN st \in PRE_DISPATCH
    ELSE IF code = "CANCELLATION" THEN st \in PRE_DISPATCH
    ELSE IF code \in {"DEFECTIVE_ITEM", "WRONG_ITEM"} THEN st \in POST_DELIV
    ELSE IF code \in {"MISSING_ITEM", "DAMAGED_IN_TRANSIT"}
         THEN (st \in IN_TRANSIT) \/ (st \in POST_DELIV)
    ELSE IF st = "" THEN TRUE
    ELSE TRUE

is_allowed(issue_code, order_status) ==
    StageAllows(normalize_issue(issue_code), _norm_status(order_status))

\* The labels and statuses the policy is asked about.  Its answers depend on
\* the arguments alone, so they are computed once per argument: the callers
\* read normalize_issue through Normalized and is_allowed through Allowed.
PolicyLabels ==
    {"DEFECTIVE_ITEM", "WRONG_ITEM", "MISSING_ITEM", "DAMAGED_IN_TRANSIT", "RETURN_POLICY",
     "REFUND_TIMELINES", "PAYMENT_ISSUES", "DELIVERY_SHIPPING", "ORDER_TRACKING",
     "CANCELLATION", "ADDRESS_CHANGE", "CASH_ON_DELIVERY", "INVOICE_GST", "WARRANTY",
     "SIZE_FIT", "HUMAN_ASSISTANCE", "OTHER", "GENERAL_QUERY", "LOYALTY_POINTS",
     "cancel my order", "wrong product", "gift wrap", "defect", "defective item",
     "warranty", "other", "cod", ""}

PolicyStatuses ==
    {"PLACED", "PROCESSING", "PACKED", "PACKING", "NEW", "PAYMENT_PENDING", "SHIPPED",
     "OUT_FOR_DELIVERY", "DELIVERED", "CANCELLED", "cancelled", " Cancelled ", "", None}

Codes == {<<label, normalize_issue(label)>> : label \in PolicyLabels}

Normalized(label) == (CHOOSE p \in Codes : p[1] = label)[2]

Verdicts ==
    {<<label, {st \in PolicyStatuses : is_allowed(label, st)}>> : label \in PolicyLabels}

\* a plausible slip: the stage of the order not consulted
Allowed_always(issue_code, order_status) == TRUE

Allowed(issue_code, order_status) ==
    order_status \in (CHOOSE p \in Verdicts : p[1] = issue_code)[2]

(***************************************************************************)
(* agent.py: regular expressions.  re.I makes every letter class match     *)
(* both cases; \b is the boundary between a \w character and a non-\w one  *)
(* (or an end of the text).                                                *)
(***************************************************************************)
WordChars == UpperLetters \cup LowerLetters \cup Digits \cup {"_"}

\* [0-9A-Z-] under re.I
OrderChars == UpperLetters \cup LowerLetters \cup Digits \cup {"-"}

IsWordAt(t, i) == i >= 1 /\ i <= Len(t) /\ Char(t, i) \in WordChars

\* \b between positions i-1 and i
Boundary(t, i) == IsWordAt(t, i - 1) # IsWordAt(t, i)

\* the literal lit (lower case) at position i, case-insensitively
At(t, i, lit) ==
    /\ i >= 1
    /\ i + Len(lit) - 1 <= Len(t)
    /\ Lower(SubSeq(t, i, i + Len(lit) - 1)) = lit

\* the last position of the longest run of characters of cls starting at i
\* (i - 1 when there is none)
RunEnd(t, i, cls) ==
    LET stop == {j \in i..(Len(t) + 1) : j > Len(t) \/ Char(t, j) \notin cls}
    IN  (CHOOSE j \in stop : \A k \in stop : j <= k) - 1

SetMin(S) == CHOOSE x \in S : \A y \in S : x <= y
SetMax(S) == CHOOSE x \in S : \A y \in S : x >= y

\* ORDER_ID_RE = (order[ _-]?id[: ]*)(ORDL[0-9A-Z-]{1,}): where group 2
\* starts when the pattern matches at i, else 0
OrderIdLabelAt(t, i) ==
    IF ~At(t, i, "order") THEN 0
    ELSE LET j == i + 5
             k == IF j <= Len(t) /\ Char(t, j) \in {" ", "_", "-"} /\ At(t, j + 1, "id")
                  THEN j + 1 ELSE j
         IN  IF ~At(t, k, "id") THEN 0
             ELSE LET p == RunEnd(t, k + 2, {":", " "}) + 1
                  IN  IF At(t, p, "ordl") /\ RunEnd(t, p + 4, OrderChars) >= p + 4
                      THEN p ELSE 0

\* ORDER_ID_RE.search(text).group(2), or None
OrderIdGroup(t, p) == SubSeq(t, p, RunEnd(t, p + 4, OrderChars))

OrderIdFirst(t, hits) ==
    IF hits = {} THEN None ELSE OrderIdGroup(t, OrderIdLabelAt(t, SetMin(hits)))

OrderIdSearch(t) == OrderIdFirst(t, {i \in 1..Len(t) : OrderIdLabelAt(t, i) # 0})

\* ORDER_TOKEN_RE = \b(ORDL[0-9A-Z-]{1,})\b at i: the end of the greedy match
\* (the longest run that ends on a boundary), or 0
OrderTokenEndAt(t, i) ==
    IF ~(Boundary(t, i) /\ At(t, i, "ordl")) THEN 0
    ELSE LET ends == {e \in (i + 4)..RunEnd(t, i + 4, OrderChars) : Boundary(t, e + 1)}
         IN  IF ends = {} THEN 0 ELSE SetMax(ends)

\* ORDER_TOKEN_RE.findall(text)[0], or None
OrderTokenAmong(t, hits) ==
    IF hits = {} THEN None ELSE SubSeq(t, SetMin(hits), OrderTokenEndAt(t, SetMin(hits)))

OrderTokenFirst(t) == OrderTokenAmong(t, {i \in 1..Len(t) : OrderTokenEndAt(t, i) # 0})

\* bool(ORDER_TOKEN_RE.search(text))
OrderTokenFound(t) == OrderTokenFirst(t) # None

\* the characters of strip(" .,:;!?\n\t\r\"'`()[]{}"), but for the backquote,
\* which a TLA+ string cannot hold (no text of the model contains one)
BareStrip == {" ", ".", ",", ":", ";", "!", "?", "\n", "\t", "\r", "\"", "'",
              "(", ")", "[", "]", "{", "}"}

_is_bare_order_message(text) ==
    LET t == StripChars(Strip(text), BareStrip)
    IN  IF Len(t) >= 5 /\ OrderTokenEndAt(t, 1) = Len(t) THEN Upper(t) ELSE None

EmailLocal == UpperLetters \cup LowerLetters \cup Digits \cup {".", "_", "%", "+", "-"}
EmailDomain == UpperLetters \cup LowerLetters \cup Digits \cup {".", "-"}
Letters == UpperLetters \cup LowerLetters

\* EMAIL_RE = \b[A-Z0-9._%+-]+@[A-Z0-9.-]+\.[A-Z]{2,}\b at i: the end of the
\* greedy match, or 0.  The domain takes the last dot that leaves a tail of
\* two or more letters ending on a boundary.
EmailEndAt(t, i) ==
    IF ~(Boundary(t, i) /\ i <= Len(t) /\ Char(t, i) \in EmailLocal) THEN 0
    ELSE LET a == RunEnd(t, i, EmailLocal) + 1
         IN  IF ~(a <= Len(t) /\ Char(t, a) = "@") THEN 0
             ELSE LET r == RunEnd(t, a + 1, EmailDomain)
                      dots == {d \in (a + 2)..r :
                                 /\ Char(t, d) = "."
                                 /\ \E e \in (d + 2)..r :
                                      /\ \A x \in (d + 1)..e : Char(t, x) \in Letters
                                      /\ Boundary(t, e + 1)}
                  IN  IF dots = {} THEN 0
                      ELSE LET d == SetMax(dots)
                           IN  SetMax({e \in (d + 2)..r :
                                         /\ \A x \in (d + 1)..e : Char(t, x) \in Letters
                                         /\ Boundary(t, e + 1)})

\* EMAIL_RE.search(text).group(0), or None
EmailAmong(t, hits) ==
    IF hits = {} THEN None ELSE SubSeq(t, SetMin(hits), EmailEndAt(t, SetMin(hits)))

EmailSearch(t) == EmailAmong(t, {i \in 1..Len(t) : EmailEndAt(t, i) # 0})

_contains_phrase(text, phrase) ==
    \E i \in 1..Len(text) :
        /\ At(text, i, phrase)
        /\ Boundary(text, i)
        /\ Boundary(text, i + Len(phrase))

STOP == {"the","a","an","and","or","to","for","of","in","on","is","are","i","my","me","it",
         "this","that","with","was","had","have","has","please","hi","hello","hey"}

\* re.findall(r"[a-z0-9]+", text.lower()) without the stop words, as a set
_tokens(text) ==
    LET low == Lower(text)
        cls == LowerLetters \cup Digits
        starts == {i \in 1..Len(low) :
                     /\ Char(low, i) \in cls
                     /\ (i = 1 \/ Char(low, i - 1) \notin cls)}
    IN  {SubSeq(low, i, RunEnd(low, i, cls)) : i \in starts} \ STOP

(***************************************************************************)
(* agent.py: token lists and the intent classifier.                        *)
(***************************************************************************)
END_TOKENS == {"no thanks", "nothing", "that's all", "that is all", "all good",
               "i'm good", "im good", "nope", "nah"}
THANKS_TOKENS == {"thanks", "thank you"}
GREET_TOKENS == {"hi", "hello", "hey", "hola", "yo", "good morning", "good afternoon",
                 "good evening"}
OPEN_TICKET_TOKENS == {"open a ticket", "open ticket", "raise a ticket", "raise ticket",
                       "create a ticket", "create ticket", "register complaint",
                       "file a complaint"}
DEFECT_TOKENS == {"defect", "defective", "broken", "damage", "damaged"}
WRONG_TOKENS == {"wrong item", "wrong product", "not what i ordered", "received different",
                 "received a different", "different brand", "mismatch", "mismatched",
                 "incorrect item", "wrong "}
MISSING_TOKENS == {"missing item", "item missing", "one item missing", "not received",
                   "not delivered", "partial delivery"}
HUMAN_TOKENS == {"talk to a human", "talk to human", "talk to agent", "human agent",
                 "human support", "human assistance", "need human assistance", "human help",
                 "need human help", "connect me to a human", "connect to human",
                 "connect to agent", "support person", "representative", "customer care",
                 "customer support", "escalate", "escalation", "call me", "phone call",
                 "need a call", "speak to someone", "speak with someone",
                 "speak to a person"}
BYE_TOKENS == {"bye", "goodbye", "bye bye", "see you", "cya", "end chat", "close chat",
               "finish chat", "stop", "exit", "quit", "no thanks that's all", "that's all",
               "that is all"}
FAQ_TRIGGERS == {"return policy", "return", "exchange", "refund", "delivery time", "shipping",
                 "track", "tracking", "cancel", "cancellation", "address change", "address",
                 "cod", "cash on delivery", "payment", "payment failed", "failed payment",
                 "money debited", "debited", "charged", "double charged", "transaction",
                 "paid", "invoice", "gst", "bill", "billing", "warranty", "size", "fit",
                 "size chart", "missing", "not received", "partial"}

DetectedIntent(type, order_id, issue_summary) ==
    [type |-> type, order_id |-> order_id, issue_summary |-> issue_summary]

\* lines 151-159: group 2 of the ORDER_ID_RE match m, stripped, else the first
\* ORDER_TOKEN_RE match
ExtractedOrderId(m, text) == IF m # None THEN Strip(m) ELSE OrderTokenFirst(text)

\* a plausible slip: the wrong-item test moved ahead of the defect test
IntentOf_wrong_first(t, order_id) ==
        IF ContainsAny(t, WRONG_TOKENS)
        THEN DetectedIntent("wrong_item", order_id, "Received wrong item")
        ELSE IF ContainsAny(t, DEFECT_TOKENS)
        THEN DetectedIntent("defect", order_id, "Defective item")
        ELSE IF \/ ContainsAny(t, MISSING_TOKENS)
                \/ (Contains(t, "missing") /\ Contains(t, "item"))
        THEN DetectedIntent("missing_item", order_id, "Missing/partial delivery")
        ELSE IF \/ ContainsAny(t, HUMAN_TOKENS)
                \/ /\ ContainsAny(t, {"human", "agent", "representative"})
                   /\ ContainsAny(t, {"help", "assist", "assistance", "support", "talk",
                                      "speak", "connect", "call"})
        THEN DetectedIntent("human", order_id, "Human assistance request")
        ELSE IF \/ ContainsAny(t, BYE_TOKENS)
                \/ (Contains(t, "thanks") /\ Contains(t, "bye"))
        THEN DetectedIntent("bye", order_id, None)
        ELSE IF \E g \in GREET_TOKENS : _contains_phrase(t, g)
        THEN DetectedIntent("greet", order_id, None)
        ELSE IF ContainsAny(t, FAQ_TRIGGERS)
        THEN DetectedIntent("faq", order_id, None)
        ELSE DetectedIntent("fallback", order_id, None)

\* a plausible slip: "broken" left out of the words of the defect test
IntentOf_no_broken(t, order_id) ==
        IF ContainsAny(t, DEFECT_TOKENS \ {"broken"})
        THEN DetectedIntent("defect", order_id, "Defective item")
        ELSE IF ContainsAny(t, WRONG_TOKENS)
        THEN DetectedIntent("wrong_item", order_id, "Received wrong item")
        ELSE IF \/ ContainsAny(t, MISSING_TOKENS)
                \/ (Contains(t, "missing") /\ Contains(t, "item"))
        THEN DetectedIntent("missing_item", order_id, "Missing/partial delivery")
        ELSE IF \/ ContainsAny(t, HUMAN_TOKENS)
                \/ /\ ContainsAny(t, {"human", "agent", "representative"})
                   /\ ContainsAny(t, {"help", "assist", "assistance", "support", "talk",
                                      "speak", "connect", "call"})
        THEN DetectedIntent("human", order_id, "Human assistance request")
        ELSE IF \/ ContainsAny(t, BYE_TOKENS)
                \/ (Contains(t, "thanks") /\ Contains(t, "bye"))
        THEN DetectedIntent("bye", order_id, None)
        ELSE IF \E g \in GREET_TOKENS : _contains_phrase(t, g)
        THEN DetectedIntent("greet", order_id, None)
        ELSE IF ContainsAny(t, FAQ_TRIGGERS)
        THEN DetectedIntent("faq", order_id, None)
        ELSE DetectedIntent("fallback", order_id, None)

\* lines 161-203: the tests on t = text.lower(), in order
IntentOf(t, order_id) ==
        IF ContainsAny(t, DEFECT_TOKENS)
        THEN DetectedIntent("defect", order_id, "Defective item")
        ELSE IF ContainsAny(t, WRONG_TOKENS)
        THEN DetectedIntent("wrong_item", order_id, "Received wrong item")
        ELSE IF \/ ContainsAny(t, MISSING_TOKENS)
                \/ (Contains(t, "missing") /\ Contains(t, "item"))
        THEN DetectedIntent("missing_item", order_id, "Missing/partial delivery")
        ELSE IF \/ ContainsAny(t, HUMAN_TOKENS)
                \/ /\ ContainsAny(t, {"human", "agent", "representative"})
                   /\ ContainsAny(t, {"help", "assist", "assistance", "support", "talk",
                                      "speak", "connect", "call"})
        THEN DetectedIntent("human", order_id, "Human assistance request")
        ELSE IF \/ ContainsAny(t, BYE_TOKENS)
                \/ (Contains(t, "thanks") /\ Contains(t, "bye"))
        THEN DetectedIntent("bye", order_id, None)
        ELSE IF \E g \in GREET_TOKENS : _contains_phrase(t, g)
        THEN DetectedIntent("greet", order_id, None)
        ELSE IF ContainsAny(t, FAQ_TRIGGERS)
        THEN DetectedIntent("faq", order_id, None)
        ELSE DetectedIntent("fallback", order_id, None)

detect_intent(text) == IntentOf(Lower(text), ExtractedOrderId(OrderIdSearch(text), text))

infer_issue_label_from_text(text) ==
    LET t == Lower(text)
    IN  IF ContainsAny(t, {"payment", "debited", "charged", "transaction"}) THEN "payment issues"
        ELSE IF Contains(t, "refund") THEN "refund timelines"
        ELSE IF ContainsAny(t, {"return", "exchange"}) THEN "return policy"
        ELSE IF ContainsAny(t, {"delivery", "shipping"}) THEN "delivery time & shipping"
        ELSE IF ContainsAny(t, {"track", "tracking"}) THEN "order tracking"
        ELSE IF Contains(t, "cancel") THEN "cancellation"
        ELSE IF Contains(t, "address") THEN "address change"
        ELSE IF ContainsAny(t, {"cod", "cash on delivery"}) THEN "cash on delivery"
        ELSE IF ContainsAny(t, {"invoice", "gst", "bill"}) THEN "invoice / gst"
        ELSE IF Contains(t, "warranty") THEN "warranty"
        ELSE IF ContainsAny(t, {"size", "fit", "size chart"}) THEN "size & fit"
        ELSE IF ContainsAny(t, {"missing", "not received", "partial"})
             THEN "missing / partial delivery"
        ELSE IF ContainsAny(t, {"damaged", "broken"}) THEN "damaged in transit"
        ELSE "other"

(***************************************************************************)
(* agent.py: the FAQ matcher.  FAQS are the rows of the faq table as       *)
(* seed_faqs_keywords.py writes them and _load_faqs reads them back        *)
(* (keywords lower-cased, split on commas and stripped).                   *)
(***************************************************************************)
FAQS == <<
    [question |-> "return policy",
     keywords |-> <<"return", "returns", "exchange", "replace", "replacement", "exchange policy">>],
    [question |-> "refund timelines",
     keywords |-> <<"refund", "refund status", "when refund", "money back", "reversed", "reversal">>],
    [question |-> "delivery time & shipping",
     keywords |-> <<"delivery", "shipping", "when arrive", "eta", "courier", "timeline">>],
    [question |-> "order tracking",
     keywords |-> <<"track", "tracking", "shipment status", "where is my order">>],
    [question |-> "cancellation",
     keywords |-> <<"cancel", "cancellation", "stop order">>],
    [question |-> "address change",
     keywords |-> <<"change address", "wrong address", "update address">>],
    [question |-> "cash on delivery",
     keywords |-> <<"cod", "cash on delivery", "pay on delivery">>],
    [question |-> "payment issues",
     keywords |-> <<"payment failed", "money debited", "charged", "double charged",
                    "transaction failed", "paid but no order", "billing">>],
    [question |-> "invoice / GST",
     keywords |-> <<"invoice", "gst", "bill", "billing">>],
    [question |-> "warranty",
     keywords |-> <<"warranty", "guarantee", "manufacturer warranty">>],
    [question |-> "size & fit",
     keywords |-> <<"size", "fit", "size chart", "too big", "too small">>],
    [question |-> "missing / partial delivery",
     keywords |-> <<"missing", "not received", "partial", "short", "one item missing">>],
    [question |-> "damaged in transit",
     keywords |-> <<"damaged", "broken", "dented", "cracked", "bad condition">>] >>

\* the score answer_faq_from_db gives one entry (integers for 2.0 and 1.0)
FaqScore(f, q, toks) ==
    LET two == {i \in 1..Len(f.keywords) :
                  Contains(f.keywords[i], " ") /\ Contains(q, f.keywords[i])}
        one == {i \in 1..Len(f.keywords) :
                  i \notin two /\ f.keywords[i] \in toks}
    IN  2 * Cardinality(two) + Cardinality(one)

FaqScores(faqs, q, toks) == [i \in 1..Len(faqs) |-> FaqScore(faqs[i], q, toks)]

\* a plausible slip: score >= best_score, which keeps the last of the
\* entries with the top score
FaqBest_last(faqs, score) ==
    {i \in 1..Len(faqs) :
        /\ score[i] > 0
        /\ \A j \in 1..Len(faqs) : score[j] <= score[i]
        /\ \A j \in (i + 1)..Len(faqs) : score[j] < score[i]}

\* score > best_score keeps the first of the entries with the top score
FaqBest(faqs, score) ==
    {i \in 1..Len(faqs) :
        /\ score[i] > 0
        /\ \A j \in 1..Len(faqs) : score[j] <= score[i]
        /\ \A j \in 1..(i - 1) : score[j] < score[i]}

FaqPick(faqs, score, best) ==
    IF best # {} /\ score[SetMin(best)] >= 1 THEN faqs[SetMin(best)].question ELSE None

FaqAnswer(faqs, score) == FaqPick(faqs, score, FaqBest(faqs, score))

\* the question of the best entry (the answer goes with it), or None
answer_faq_from_db(faqs, query) ==
    FaqAnswer(faqs, FaqScores(faqs, Lower(query), _tokens(query)))

(***************************************************************************)
(* ticketing.py and db.py: the store.  A store value db is the record      *)
(* [customers, tickets, messages]; AUTOINCREMENT ids are row positions.    *)
(* Timestamps and the e-mail metadata columns are left out: nothing in the *)
(* controller reads them.                                                  *)
(***************************************************************************)
\* the orders table: no code of the repository writes it
Orders ==
    [o \in {"ORDL123", "ORDL456", "ORDL-BROKEN"} |->
        CASE o = "ORDL123" -> "DELIVERED"
          [] o = "ORDL456" -> "PACKING"
          [] o = "ORDL-BROKEN" -> "DELIVERED"]

\* SELECT status FROM orders WHERE order_id = ?  (None when there is no row)
get_order_status(order_id) ==
    IF order_id \in DOMAIN Orders THEN Orders[order_id] ELSE None

get_or_create_customer(db, email, name) ==
    LET known == {i \in 1..Len(db.customers) : db.customers[i].email = email}
    IN  IF email # None /\ known # {}
        THEN [db |-> db, id |-> SetMin(known)]
        ELSE [db |-> [db EXCEPT !.customers =
                         Append(@, [email |-> email, name |-> name])],
              id |-> Len(db.customers) + 1]

create_ticket(db, customer_id, order_id, issue_type, first_msg, source) ==
    LET ticket_id == Len(db.tickets) + 1
    IN  [db |-> [db EXCEPT
                   !.tickets = Append(@, [customer_id |-> customer_id,
                                          order_id |-> order_id,
                                          issue_type |-> issue_type,
                                          status |-> "open",
                                          last_message |-> first_msg,
                                          source |-> source]),
                   !.messages = Append(@, [ticket_id |-> ticket_id, role |-> "user",
                                           text |-> first_msg])],
         id |-> ticket_id]

append_message(db, ticket_id, role, text) ==
    [db EXCEPT
       !.messages = Append(@, [ticket_id |-> ticket_id, role |-> role, text |-> text]),
       !.tickets = [i \in 1..Len(@) |->
                      IF i = ticket_id THEN [@[i] EXCEPT !.last_message = text]
                      ELSE @[i]]]

\* the rows the SELECT of find_open_ticket_by_order matches
OpenTicketsFor(db, customer_id, order_id) ==
    {i \in 1..Len(db.tickets) :
        /\ db.tickets[i].customer_id = customer_id
        /\ db.tickets[i].order_id = order_id
        /\ db.tickets[i].status # "closed"}

\* a plausible slip: the lookup never finds a row
find_open_ticket_never(db, customer_id, order_id) == 0

\* fetchone() of a scan of the table: the matching row with the lowest id,
\* or 0 for None
find_open_ticket_by_order(db, customer_id, order_id) ==
    LET rows == OpenTicketsFor(db, customer_id, order_id)
    IN  IF rows = {} THEN 0 ELSE SetMin(rows)

\* a plausible slip: the lookup of the open ticket left out
_create_or_append_ticket_always_create(db, customer_id, order_id, issue_code, first_msg, source) ==
    LET made == create_ticket(db, customer_id, order_id, issue_code,
                              Take(first_msg, 1000), source)
    IN  [db |-> made.db, tid |-> made.id, created |-> TRUE]

\* agent.py: returns (tid, created) and the store it leaves
_create_or_append_ticket(db, customer_id, order_id, issue_code, first_msg, source) ==
    LET existing == IF order_id # None
                    THEN find_open_ticket_by_order(db, customer_id, order_id) ELSE 0
    IN  IF existing # 0
        THEN [db |-> append_message(db, existing, "user", Take(first_msg, 2000)),
              tid |-> existing, created |-> FALSE]
        ELSE LET made == create_ticket(db, customer_id, order_id, issue_code,
                                       Take(first_msg, 1000), source)
             IN  [db |-> made.db, tid |-> made.id, created |-> TRUE]

(***************************************************************************)
(* The texts the callers send.  What the text-only helpers return depends  *)
(* on the text alone, so it is computed once per text: Seen(text) is the   *)
(* record of those results, and chat_turn reads them there.                *)
(***************************************************************************)
OrderTexts ==
    {"I got a defective item, order ORDL123",
     "broken item ORDL456",
     "my item is broken",
     "ORDL123",
     "ORDL456",
     "ORDL-BROKEN",
     "please open a ticket",
     "it does not work",
     "thanks"}

TalkTexts ==
    {"where is my refund",
     "no",
     "thanks",
     "",
     "I need to talk to a human",
     "my email is a@x.com",
     "hello, my email is a@x.com",
     "hello, thanks",
     "ORDL456",
     "asdf"}

\* messages about an order id that the orders table does not hold
StrayTexts ==
    {"broken item ORDL999",
     "ORDL999",
     "please open a ticket for ORDL999",
     "please open a ticket",
     "I need to talk to a human",
     "thanks"}

\* messages that report an issue and ask for a ticket in the same breath
BlendTexts ==
    {"broken item ORDL456, please open a ticket",
     "wrong item in ORDL123, raise a ticket",
     "my item is broken, please open a ticket",
     "please open a ticket, I need to talk to a human",
     "broken item ORDL456",
     "ORDL123",
     "thanks"}

\* messages that type an order id in lower case
CaseTexts ==
    {"broken item ordl123",
     "ordl123",
     "broken item ORDL123",
     "ORDL123",
     "my item is broken",
     "thanks"}

Texts == OrderTexts \cup TalkTexts \cup StrayTexts \cup BlendTexts \cup CaseTexts

IngestText == "item arrived broken"

\* the words that keep a fallback message with an order id out of the
\* ask-for-the-issue reply (lines 462-465)
ISSUE_HINTS == {"defect", "broken", "damaged", "wrong", "missing", "not received", "partial",
                "refund", "return", "exchange", "payment", "charged", "debited", "invoice",
                "tracking", "cancel", "address", "size", "warranty"}

ScanOf(user_text, tl, hit) ==
        [tl |-> tl,
         intent |-> detect_intent(user_text),
         ends |-> ContainsAny(tl, END_TOKENS) \/ ContainsAny(tl, THANKS_TOKENS),
         email |-> EmailSearch(user_text),
         bare_order |-> _is_bare_order_message(user_text),
         order_token |-> OrderTokenFound(user_text),
         open_ticket |-> ContainsAny(tl, OPEN_TICKET_TOKENS),
         issue_hint |-> ContainsAny(tl, ISSUE_HINTS),
         defect_word |-> ContainsAny(tl, DEFECT_TOKENS),
         faq_hit |-> hit,
         faq_code |-> normalize_issue(IF hit # None THEN hit
                                      ELSE infer_issue_label_from_text(user_text))]

Scan(user_text) ==
    ScanOf(user_text, Lower(Strip(user_text)), answer_faq_from_db(FAQS, user_text))

Scans == {<<t, Scan(t)>> : t \in Texts \cup {IngestText}}

Seen(user_text) == (CHOOSE p \in Scans : p[1] = user_text)[2]

(***************************************************************************)
(* agent.py: chat_turn.  A reply is named by the canned text it is built   *)
(* from; the advisor (llm.py) is the record adv of what its calls return   *)
(* during the turn: adv.classify is classify's dict (confidence in         *)
(* hundredths) and adv.route is manual_route's dict (section None when it  *)
(* returns None or no section).  A turn yields the record                  *)
(*   [facts, closed, db, reply, ticket_id, raised]                         *)
(* where closed says the session was popped from SESSION_CACHE, ticket_id  *)
(* is the second component of the returned pair (0 for None) and raised    *)
(* says the call ended in an exception instead of returning.               *)
(***************************************************************************)
\* facts right after setdefault: absent keys read as None / 0 / FALSE
EmptyFacts ==
    [_repeat |-> [key |-> None, count |-> 0],
     order_id |-> None,
     customer_id |-> 0,
     awaiting_human_email |-> FALSE,
     contact_email |-> None,
     last_issue_code |-> None,
     pending_issue_text |-> None]

Ret(facts, db, reply, ticket_id) ==
    [facts |-> facts, closed |-> FALSE, db |-> db, reply |-> reply,
     ticket_id |-> ticket_id, raised |-> FALSE]

\* a plausible slip: the counter restarts at every call
_mark_restart(facts, reply_key) ==
    [facts EXCEPT !._repeat = [key |-> reply_key, count |-> 1]]

\* the repeat guard losing the order id of the session as it counts
_mark_forgets_order(facts, reply_key) ==
    [facts EXCEPT !.order_id = None,
                  !._repeat =
        IF @.key = reply_key THEN [key |-> reply_key, count |-> @.count + 1]
        ELSE [key |-> reply_key, count |-> 1]]

\* chat_turn._mark: the facts it leaves; the count it returns is _repeat.count
_mark(facts, reply_key) ==
    [facts EXCEPT !._repeat =
        IF @.key = reply_key THEN [key |-> reply_key, count |-> @.count + 1]
        ELSE [key |-> reply_key, count |-> 1]]

\* lines 329-341: the turn of a session that waits for a contact e-mail
HumanEmailCapture(facts, db, m, name, order_id) ==
        IF m = None THEN Ret(facts, db, "ask_email_again", 0)
        ELSE LET c == get_or_create_customer(db, m, IF name # None THEN name ELSE "Chat User")
                 t == _create_or_append_ticket(c.db, c.id, order_id, "HUMAN_ASSISTANCE",
                                               "[Human request] " \o m, "chat")
             IN  Ret([facts EXCEPT !.customer_id = c.id, !.contact_email = m,
                                   !.awaiting_human_email = FALSE],
                     t.db, "human_requested_email", t.tid)

\* the bare-order path filing without the remembered complaint text
BareOrder_forgets_text(facts0, db, bare_order, email, name) ==
    LET facts == [facts0 EXCEPT !.order_id = bare_order]
        order_id == bare_order
        last_code == facts.last_issue_code
        pending_msg == "Auto-created from prior complaint."
    IN  IF last_code # None
        THEN LET status == get_order_status(order_id)
             IN  IF status = None THEN Ret(facts, db, "bare_order_not_found", 0)
                 ELSE IF ~Allowed(last_code, status)
                 THEN Ret(facts, db, "bare_not_allowed", 0)
                 ELSE LET c == IF facts.customer_id # 0
                               THEN [db |-> db, id |-> facts.customer_id]
                               ELSE get_or_create_customer(db, email, name)
                          t == _create_or_append_ticket(c.db, c.id, order_id, last_code,
                                                        pending_msg, "chat")
                      IN  Ret([facts EXCEPT !.customer_id = c.id,
                                            !.pending_issue_text = None],
                              t.db,
                              IF t.created THEN "bare_created" ELSE "bare_updated",
                              t.tid)
        ELSE LET marked == _mark(facts, "ask_issue_after_bare_ordl")
             IN  IF marked._repeat.count >= 2
                 THEN Ret(marked, db, "ask_issue_after_bare_ordl_escalated", 0)
                 ELSE Ret(marked, db, "ask_issue_after_bare_ordl", 0)

\* the bare-order path dropping the remembered issue code once it has filed
BareOrder_forgets_code(facts0, db, bare_order, email, name) ==
    LET facts == [facts0 EXCEPT !.order_id = bare_order]
        order_id == bare_order
        last_code == facts.last_issue_code
        pending_msg == IF facts.pending_issue_text # None THEN facts.pending_issue_text
                       ELSE "Auto-created from prior complaint."
    IN  IF last_code # None
        THEN LET status == get_order_status(order_id)
             IN  IF status = None THEN Ret(facts, db, "bare_order_not_found", 0)
                 ELSE IF ~Allowed(last_code, status)
                 THEN Ret(facts, db, "bare_not_allowed", 0)
                 ELSE LET c == IF facts.customer_id # 0
                               THEN [db |-> db, id |-> facts.customer_id]
                               ELSE get_or_create_customer(db, email, name)
                          t == _create_or_append_ticket(c.db, c.id, order_id, last_code,
                                                        pending_msg, "chat")
                      IN  Ret([facts EXCEPT !.customer_id = c.id,
                                            !.pending_issue_text = None,
                                            !.last_issue_code = None],
                              t.db,
                              IF t.created THEN "bare_created" ELSE "bare_updated",
                              t.tid)
        ELSE LET marked == _mark(facts, "ask_issue_after_bare_ordl")
             IN  IF marked._repeat.count >= 2
                 THEN Ret(marked, db, "ask_issue_after_bare_ordl_escalated", 0)
                 ELSE Ret(marked, db, "ask_issue_after_bare_ordl", 0)

\* lines 344-368: the whole message is one order token
BareOrder(facts0, db, bare_order, email, name) ==
    LET facts == [facts0 EXCEPT !.order_id = bare_order]
        order_id == bare_order
        last_code == facts.last_issue_code
        pending_msg == IF facts.pending_issue_text # None THEN facts.pending_issue_text
                       ELSE "Auto-created from prior complaint."
    IN  IF last_code # None
        THEN LET status == get_order_status(order_id)
             IN  IF status = None THEN Ret(facts, db, "bare_order_not_found", 0)
                 ELSE IF ~Allowed(last_code, status)
                 THEN Ret(facts, db, "bare_not_allowed", 0)
                 ELSE LET c == IF facts.customer_id # 0
                               THEN [db |-> db, id |-> facts.customer_id]
                               ELSE get_or_create_customer(db, email, name)
                          t == _create_or_append_ticket(c.db, c.id, order_id, last_code,
                                                        pending_msg, "chat")
                      IN  Ret([facts EXCEPT !.customer_id = c.id,
                                            !.pending_issue_text = None],
                              t.db,
                              IF t.created THEN "bare_created" ELSE "bare_updated",
                              t.tid)
        ELSE LET marked == _mark(facts, "ask_issue_after_bare_ordl")
             IN  IF marked._repeat.count >= 2
                 THEN Ret(marked, db, "ask_issue_after_bare_ordl_escalated", 0)
                 ELSE Ret(marked, db, "ask_issue_after_bare_ordl", 0)

\* lines 420-426 and 494-500: the human escalation
HumanEscalation(facts, db, customer_id, order_id, user_text, email) ==
    IF ~(email # None /\ Contains(email, "@"))
    THEN Ret([facts EXCEPT !.awaiting_human_email = TRUE], db, "ask_email", 0)
    ELSE LET t == _create_or_append_ticket(db, customer_id, order_id, "HUMAN_ASSISTANCE",
                                           user_text, "chat")
         IN  Ret(facts, t.db,
                 IF t.created THEN "human_requested" ELSE "human_added_to_existing", 0)

\* a plausible slip: the first two codes of the conditional swapped
CoreIssue_swapped(facts0, db, customer_id, order_id, user_text, type) ==
    LET issue_code == IF type = "defect" THEN "WRONG_ITEM"
                      ELSE IF type = "wrong_item" THEN "DEFECTIVE_ITEM" ELSE "MISSING_ITEM"
        facts == [facts0 EXCEPT !.last_issue_code = issue_code,
                                !.pending_issue_text = user_text]
    IN  IF order_id = None
        THEN LET marked == _mark(facts, "ask_ordl_for_ticketable")
             IN  IF marked._repeat.count >= 2
                 THEN Ret(marked, db, "offer_human_no_ordl", 0)
                 ELSE Ret(marked, db, "ask_ordl", 0)
        ELSE LET status == get_order_status(order_id)
             IN  IF status = None THEN Ret(facts, db, "order_not_found", 0)
                 ELSE IF ~Allowed(issue_code, status)
                 THEN Ret(facts, db, "not_allowed", 0)
                 ELSE LET t == _create_or_append_ticket(db, customer_id, order_id,
                                                        issue_code, user_text, "chat")
                      IN  Ret([facts EXCEPT !.pending_issue_text = None], t.db,
                              "created_ticket", t.tid)

\* lines 429-446: defect, wrong_item, missing_item
CoreIssue(facts0, db, customer_id, order_id, user_text, type) ==
    LET issue_code == IF type = "defect" THEN "DEFECTIVE_ITEM"
                      ELSE IF type = "wrong_item" THEN "WRONG_ITEM" ELSE "MISSING_ITEM"
        facts == [facts0 EXCEPT !.last_issue_code = issue_code,
                                !.pending_issue_text = user_text]
    IN  IF order_id = None
        THEN LET marked == _mark(facts, "ask_ordl_for_ticketable")
             IN  IF marked._repeat.count >= 2
                 THEN Ret(marked, db, "offer_human_no_ordl", 0)
                 ELSE Ret(marked, db, "ask_ordl", 0)
        ELSE LET status == get_order_status(order_id)
             IN  IF status = None THEN Ret(facts, db, "order_not_found", 0)
                 ELSE IF ~Allowed(issue_code, status)
                 THEN Ret(facts, db, "not_allowed", 0)
                 ELSE LET t == _create_or_append_ticket(db, customer_id, order_id,
                                                        issue_code, user_text, "chat")
                      IN  Ret([facts EXCEPT !.pending_issue_text = None], t.db,
                              "created_ticket", t.tid)

\* lines 473-484: the defect fast-path
DefectFastPath(facts0, db, customer_id, order_id, user_text) ==
    LET marked == IF order_id = None THEN _mark(facts0, "ask_ordl_for_defect") ELSE facts0
    IN  IF order_id = None /\ marked._repeat.count >= 2
        THEN Ret(marked, db, "offer_human_no_ordl", 0)
        ELSE LET status == get_order_status(order_id)
             IN  IF status = None THEN Ret(marked, db, "order_not_found", 0)
                 ELSE IF ~Allowed("DEFECTIVE_ITEM", status)
                 THEN Ret(marked, db, "not_allowed_defect", 0)
                 ELSE LET t == _create_or_append_ticket(db, customer_id, order_id,
                                                        "DEFECTIVE_ITEM", user_text, "chat")
                      IN  Ret(marked, t.db,
                              IF t.created THEN "fast_created" ELSE "fast_updated", t.tid)

\* lines 527-533
GenericHelp(facts, db) ==
    LET marked == _mark(facts, "generic_help")
    IN  IF marked._repeat.count >= 2 THEN Ret(marked, db, "generic_escalated", 0)
        ELSE Ret(marked, db, "generic", 0)

\* lines 487-533: the advisor's classification, then the generic help
LlmFallback(facts0, db, customer_id, order_id0, user_text, seen, email, adv) ==
    LET llm_res == adv.classify
        llm_intent == llm_res.intent
        conf == llm_res.confidence
        adopt == llm_res.order_id # None /\ order_id0 = None
        order_id == IF adopt THEN llm_res.order_id ELSE order_id0
        facts == IF adopt THEN [facts0 EXCEPT !.order_id = order_id] ELSE facts0
    IN  IF llm_intent = "human" /\ conf >= 70
        THEN HumanEscalation(facts, db, customer_id, order_id, user_text, email)
        ELSE IF llm_intent \in {"defect", "wrong_item", "missing_item"} /\ conf >= 70
        THEN LET code == IF llm_intent = "defect" THEN "DEFECTIVE_ITEM"
                         ELSE IF llm_intent = "wrong_item" THEN "WRONG_ITEM"
                         ELSE "MISSING_ITEM"
             IN  IF order_id = None
                 THEN LET marked == _mark(facts, "ask_ordl_llm")
                      IN  IF marked._repeat.count >= 2
                          THEN Ret(marked, db, "llm_offer_human_no_ordl", 0)
                          ELSE Ret(marked, db, "llm_ask_ordl", 0)
                 ELSE LET status == get_order_status(order_id)
                      IN  IF status = None THEN Ret(facts, db, "order_not_found", 0)
                          ELSE IF ~Allowed(code, status)
                          THEN Ret(facts, db, "llm_not_allowed", 0)
                          ELSE LET t == _create_or_append_ticket(db, customer_id, order_id,
                                                                 code, user_text, "chat")
                               IN  Ret(facts, t.db,
                                       IF t.created THEN "llm_created" ELSE "llm_updated",
                                       t.tid)
        ELSE IF llm_intent = "faq" /\ conf >= 60
        THEN LET hit == seen.faq_hit
                 label == IF hit # None THEN hit
                          ELSE IF llm_res.issue_label # None THEN llm_res.issue_label
                          ELSE "other"
             IN  Ret([facts EXCEPT !.last_issue_code = Normalized(label)], db,
                     "llm_faq_answer", 0)
        ELSE GenericHelp(facts, db)

\* lines 412-533: from the open-ticket phrase on
Intents(facts, db, customer_id, order_id, user_text, seen, email, adv) ==
    IF seen.open_ticket
    THEN LET issue_code == IF facts.last_issue_code # None THEN facts.last_issue_code
                           ELSE "GENERAL_QUERY"
             t == _create_or_append_ticket(db, customer_id, facts.order_id, issue_code,
                                           user_text, "chat")
         IN  Ret(facts, t.db, "opened_ticket", t.tid)
    ELSE IF seen.intent.type = "human"
    THEN HumanEscalation(facts, db, customer_id, order_id, user_text, email)
    ELSE IF seen.intent.type \in {"defect", "wrong_item", "missing_item"}
    THEN CoreIssue(facts, db, customer_id, order_id, user_text, seen.intent.type)
    ELSE IF seen.intent.type = "faq"
    THEN Ret([facts EXCEPT !.last_issue_code = seen.faq_code], db, "faq_answer_offer", 0)
    ELSE IF seen.intent.type = "fallback" /\ order_id # None /\ ~seen.issue_hint
    THEN LET marked == _mark(facts, "ask_issue_after_ordl")
         IN  IF marked._repeat.count >= 2
             THEN Ret(marked, db, "ask_issue_after_ordl_escalated", 0)
             ELSE Ret(marked, db, "ask_issue_after_ordl", 0)
    ELSE IF seen.defect_word
    THEN DefectFastPath(facts, db, customer_id, order_id, user_text)
    ELSE LlmFallback(facts, db, customer_id, order_id, user_text, seen, email, adv)

\* the customer resolved anew on every turn that gets past the manuals
Routed_resolves_again(facts0, c, order_id, user_text, seen, email, adv) ==
    LET again == get_or_create_customer(c.db, None, None)
    IN  Intents([facts0 EXCEPT !.customer_id = again.id], again.db, again.id, order_id,
                user_text, seen, email, adv)

\* lines 405-409: ensure customer id; c is the customer of the session, or
\* the one get_or_create_customer returns, with the store it leaves
Routed(facts0, c, order_id, user_text, seen, email, adv) ==
    Intents([facts0 EXCEPT !.customer_id = c.id], c.db, c.id, order_id, user_text, seen,
            email, adv)

\* lines 371-403: the product manuals.  init_db creates no manual table, so
\* get_manual_fuzzy's SELECT (and upsert_manual's, for a product whose slug
\* is empty) raises sqlite3.OperationalError once a product is known; the
\* facts last_manual_product and last_manual_md are therefore never set.
ManualOrRouted(facts, db, order_id, user_text, seen, email, name, adv) ==
    LET touching_order == seen.order_token \/ order_id # None
        route == IF touching_order THEN [section |-> None, product |-> None, confidence |-> 0]
                 ELSE adv.route
    IN  IF route.section # None /\ route.confidence >= 60
        THEN IF route.product = None THEN Ret(facts, db, "manual_ask_product", 0)
             ELSE [Ret(facts, db, "raised_no_manual_table", 0) EXCEPT !.raised = TRUE]
        ELSE IF seen.tl \in {"send full guide", "full manual", "full user guide"}
        THEN Ret(facts, db, "no_guide_yet", 0)
        ELSE Routed(facts,
                    IF facts.customer_id # 0 THEN [db |-> db, id |-> facts.customer_id]
                    ELSE get_or_create_customer(db, email, name),
                    order_id, user_text, seen, email, adv)

\* lines 314-403: the tests of the turn, in order, on the facts that hold the
\* order id of the message
Dispatch(facts, db, user_text, seen, email, name, adv) ==
    IF seen.intent.type = "greet" THEN Ret(facts, db, "greet", 0)
    ELSE IF seen.intent.type = "bye" \/ seen.ends
    THEN [Ret(EmptyFacts, db, "farewell", 0) EXCEPT !.closed = TRUE]
    ELSE IF facts.awaiting_human_email
    THEN HumanEmailCapture(facts, db, seen.email, name, facts.order_id)
    ELSE IF seen.bare_order # None
    THEN BareOrder(facts, db, seen.bare_order, email, name)
    ELSE ManualOrRouted(facts, db, facts.order_id, user_text, seen, email, name, adv)

\* lines 309-312: the order id detect_intent extracts replaces the one the
\* session remembers
Turn(facts0, db, user_text, seen, email, name, adv) ==
    Dispatch(IF seen.intent.order_id # None
             THEN [facts0 EXCEPT !.order_id = seen.intent.order_id] ELSE facts0,
             db, user_text, seen, email, name, adv)

\* one set of facts for all sessions: the turn starts from the facts of
\* whichever session the cache holds
chat_turn_shared_facts(cache, db, session_id, user_text, email, name, adv) ==
    Turn(IF DOMAIN cache # {} THEN cache[CHOOSE s \in DOMAIN cache : TRUE] ELSE EmptyFacts,
         db, user_text, Seen(user_text), email, name, adv)

\* lines 298-299: the facts of the session, made on its first turn
chat_turn(cache, db, session_id, user_text, email, name, adv) ==
    Turn(IF session_id \in DOMAIN cache THEN cache[session_id] ELSE EmptyFacts,
         db, user_text, Seen(user_text), email, name, adv)

(***************************************************************************)
(* flask_app.py: the one-shot ingest.  Returns the store it leaves and the *)
(* keys created / ticket of its result dict.                               *)
(***************************************************************************)
\* lines 92-103: the issue code of the ingest
IngestIssueCode(issue_type, intent_name, issue_label) ==
    IF issue_type # None THEN Normalized(issue_type)
    ELSE IF intent_name = "defect" THEN "DEFECTIVE_ITEM"
    ELSE IF intent_name = "wrong_item" THEN "WRONG_ITEM"
    ELSE IF intent_name = "missing_item" THEN "MISSING_ITEM"
    ELSE IF intent_name = "human" THEN "HUMAN_ASSISTANCE"
    ELSE Normalized(IF issue_label # None THEN issue_label ELSE "other")

\* lines 110-134: append to the ticket found, or create one
IngestFiled(c, existing, channel, text, order, issue_code) ==
    IF existing # 0
    THEN [db |-> append_message(c.db, existing, "user", Take(text, 2000)),
          created |-> FALSE, ticket |-> existing]
    ELSE [db |-> create_ticket(c.db, c.id, order, issue_code, Take(text, 1000), channel).db,
          created |-> TRUE, ticket |-> Len(c.db.tickets) + 1]

\* lines 105-110: c is what get_or_create_customer returns
IngestFor(c, channel, text, order, issue_code) ==
    IngestFiled(c, IF order # None THEN find_open_ticket_by_order(c.db, c.id, order) ELSE 0,
                channel, text, order, issue_code)

_process_ingest_message(db, channel, user_email, user_name, text, order_id, issue_type, adv) ==
    IngestFor(get_or_create_customer(db, user_email, user_name), channel, text,
              IF order_id # None THEN order_id ELSE adv.classify.order_id,
              IngestIssueCode(issue_type, Lower(adv.classify.intent),
                              adv.classify.issue_label))

(***************************************************************************)
(* The inputs the callers send.                                            *)
(***************************************************************************)
MaxCustomers == 2
MaxTickets == 2
MaxMessages == 3
MaxRepeat == 3
MaxServed == 3
TrailLen == 3

SessionIds == {"s1", "s2"}
Emails == {None, "a@x.com"}

NoRoute == [section |-> None, product |-> None, confidence |-> 0]

Adv(intent, order_id, issue_label, confidence, route) ==
    [classify |-> [intent |-> intent, order_id |-> order_id,
                   issue_label |-> issue_label, confidence |-> confidence],
     route |-> route]

\* llm.py: classify's fallback dict and manual_route's None, with no client
AdvDown == Adv("fallback", None, None, 0, NoRoute)

Advisors ==
    {AdvDown,
     Adv("defect", "ORDL123", None, 50, NoRoute),
     Adv("defect", "ORDL123", "defective item", 70, NoRoute),
     Adv("human", None, None, 90, NoRoute),
     Adv("faq", None, "warranty", 60, NoRoute),
     Adv("fallback", None, None, 0, [section |-> "quick_start", product |-> None, confidence |-> 75]),
     Adv("fallback", None, None, 0, [section |-> "quick_start", product |-> "router",
                                     confidence |-> 75])}

\* the advisor as the callers of the order texts meet it
OrderAdvisors ==
    {AdvDown,
     Adv("defect", "ORDL123", "defective item", 70, NoRoute),
     Adv("defect", "ORDL456", None, 80, NoRoute),
     Adv("fallback", None, None, 0, [section |-> "quick_start", product |-> None, confidence |-> 75])}

\* the advisor is unavailable or below the threshold of the intent it names
Quiet(adv) ==
    /\ adv.route.section = None \/ adv.route.confidence < 60
    /\ \/ adv.classify.intent \in {"fallback", "bye", "greet"}
       \/ adv.classify.intent = "faq" /\ adv.classify.confidence < 60
       \/ /\ adv.classify.intent \in {"human", "defect", "wrong_item", "missing_item"}
          /\ adv.classify.confidence < 70

Store == [customers |-> customers, tickets |-> tickets, messages |-> messages]

WithinBounds(db) ==
    /\ Len(db.customers) <= MaxCustomers
    /\ Len(db.tickets) <= MaxTickets
    /\ Len(db.messages) <= MaxMessages

NoTrail == <<>>

NoCall == [pc |-> "idle", email |-> None, order |-> None, customer_id |-> 0, existing |-> 0]

NoLast ==
    [op |-> "init", sid |-> None, text |-> None, fresh |-> FALSE,
     reply |-> None, ticket_id |-> 0, closed |-> FALSE, raised |-> FALSE]

NoPol == [label |-> None, status |-> None, code |-> None, allowed |-> FALSE, done |-> FALSE]

NoScan == [text |-> None, faqs |-> 0, intent |-> None, hit |-> None, pc |-> "idle"]

IngestEmails == {"a@x.com", "b@x.com"}
IngestOrders == {None, "ORDL123", "ORDL456"}
IngestIssues == {None, "defect"}
IngestAdvisors == {AdvDown, Adv("missing_item", "ORDL123", None, 80, NoRoute)}
Threads == {"t1", "t2"}

(***************************************************************************)
(* The state after init_db() and the import of agent.py.                   *)
(***************************************************************************)
InitStore ==
    /\ SESSION_CACHE = [s \in {} |-> EmptyFacts]
    /\ customers = <<>>
    /\ tickets = <<>>
    /\ messages = <<>>
    /\ last = NoLast
    /\ trail = [s \in SessionIds |-> NoTrail]
    /\ calls = [t \in Threads |-> NoCall]
    /\ served = 0

Init ==
    /\ InitStore
    /\ pol = NoPol
    /\ scan = NoScan

\* the latest TrailLen turns of a session; the turn after the one that
\* closed the session starts the trail of the next session of that id
Extend(tr, entry) ==
    IF tr # <<>> /\ tr[Len(tr)].closed THEN <<entry>>
    ELSE IF Len(tr) < TrailLen THEN Append(tr, entry)
    ELSE Append(Tail(tr), entry)

\* the state and the response a call r of chat_turn leaves
Answered(session_id, user_text, adv, r) ==
        /\ served < MaxServed
        /\ WithinBounds(r.db)
        /\ r.facts._repeat.count <= MaxRepeat
        /\ served' = served + 1
        /\ SESSION_CACHE' =
              IF r.closed
              THEN [s \in DOMAIN SESSION_CACHE \ {session_id} |-> SESSION_CACHE[s]]
              ELSE [s \in DOMAIN SESSION_CACHE \cup {session_id} |->
                       IF s = session_id THEN r.facts ELSE SESSION_CACHE[s]]
        /\ customers' = r.db.customers
        /\ tickets' = r.db.tickets
        /\ messages' = r.db.messages
        /\ last' = [op |-> "chat", sid |-> session_id, text |-> user_text,
                    fresh |-> session_id \notin DOMAIN SESSION_CACHE,
                    reply |-> r.reply, ticket_id |-> r.ticket_id, closed |-> r.closed,
                    raised |-> r.raised]
        /\ trail' = [trail EXCEPT ![session_id] =
                        Extend(@, [text |-> user_text, reply |-> r.reply,
                                   quiet |-> Quiet(adv), closed |-> r.closed,
                                   created |-> Len(r.db.tickets) > Len(tickets)])]
        /\ UNCHANGED <<calls, pol, scan>>

\* POST /chat and cli_demo: one call of chat_turn
ChatTurn(session_id, user_text, email, adv) ==
    Answered(session_id, user_text, adv,
             chat_turn(SESSION_CACHE, Store, session_id, user_text, email, None, adv))

\* the store and the response an ingest call r leaves
Ingested(text, r) ==
        /\ served < MaxServed
        /\ WithinBounds(r.db)
        /\ served' = served + 1
        /\ customers' = r.db.customers
        /\ tickets' = r.db.tickets
        /\ messages' = r.db.messages
        /\ last' = [op |-> "ingest", sid |-> None, text |-> text,
                    fresh |-> FALSE,
                    reply |-> IF r.created THEN "ingest_created" ELSE "ingest_appended",
                    ticket_id |-> r.ticket, closed |-> FALSE, raised |-> FALSE]
        /\ UNCHANGED <<SESSION_CACHE, trail, calls, pol, scan>>

\* POST /ingest/message (and POST /chat with ingest=true), served alone
Ingest(user_email, text, order_id, issue_type, adv) ==
    Ingested(text, _process_ingest_message(Store, "chat", user_email, None, text, order_id,
                                           issue_type, adv))

\* callers that complain about orders, next to the ingest
NextOrders ==
    \/ \E session_id \in SessionIds, user_text \in OrderTexts, email \in Emails,
          adv \in OrderAdvisors :
          ChatTurn(session_id, user_text, email, adv)
    \/ \E user_email \in IngestEmails, order_id \in IngestOrders,
          issue_type \in IngestIssues, adv \in IngestAdvisors :
          Ingest(user_email, IngestText, order_id, issue_type, adv)

SpecOrders == Init /\ [][NextOrders]_vars

\* callers that ask, decline, greet, leave or want a human agent
NextTalk ==
    \E session_id \in {"s1"}, user_text \in TalkTexts, email \in Emails, adv \in Advisors :
       ChatTurn(session_id, user_text, email, adv)

SpecTalk == Init /\ [][NextTalk]_vars

\* callers that write about an order the store does not know
NextStray ==
    \E session_id \in {"s1"}, user_text \in StrayTexts, email \in Emails, adv \in {AdvDown} :
       ChatTurn(session_id, user_text, email, adv)

SpecStray == Init /\ [][NextStray]_vars

\* callers that report an issue and ask for a ticket in one message
NextBlend ==
    \E session_id \in {"s1"}, user_text \in BlendTexts, email \in Emails, adv \in {AdvDown} :
       ChatTurn(session_id, user_text, email, adv)

SpecBlend == Init /\ [][NextBlend]_vars

\* the advisor takes every message it is shown for a goodbye
PartingAdvisors ==
    {Adv("bye", None, None, 70, NoRoute), Adv("bye", None, None, 90, NoRoute)}

\* callers whose messages the advisor reads as a goodbye
NextParting ==
    \E session_id \in {"s1"}, user_text \in OrderTexts, email \in Emails,
       adv \in PartingAdvisors :
       ChatTurn(session_id, user_text, email, adv)

SpecParting == Init /\ [][NextParting]_vars

\* two sessions of callers who give no email and do not part, the advisor
\* unavailable
NextPair ==
    \E session_id \in SessionIds, user_text \in OrderTexts \ {"thanks"} :
       ChatTurn(session_id, user_text, None, AdvDown)

SpecPair == Init /\ [][NextPair]_vars

(***************************************************************************)
(* flask_app.py: PATCH /tickets/<id>.  The desk sets the status of a       *)
(* ticket; an unknown status or ticket changes nothing.                    *)
(***************************************************************************)
\* ticketing.py lines 90-94
set_status(db, ticket_id, status) ==
    [db EXCEPT !.tickets = [i \in 1..Len(@) |->
                              IF i = ticket_id THEN [@[i] EXCEPT !.status = status]
                              ELSE @[i]]]

\* the statuses the desk sends: the four the handler accepts and one it
\* does not
DeskStatuses == {"open", "in_progress", "resolved", "closed", "reopened"}

\* flask_app.py lines 247-256
update_ticket(db, ticket_id, status) ==
    IF status \notin {"open", "in_progress", "resolved", "closed"}
    THEN [db |-> db, reply |-> "invalid_status"]
    ELSE IF ticket_id \notin 1..Len(db.tickets)
    THEN [db |-> db, reply |-> "ticket_not_found"]
    ELSE [db |-> set_status(db, ticket_id, status), reply |-> "status_set"]

UpdateTicket(ticket_id, status) ==
    LET r == update_ticket(Store, ticket_id, status)
    IN  /\ tickets' = r.db.tickets
        /\ last' = [op |-> "update", sid |-> None, text |-> None, fresh |-> FALSE,
                    reply |-> r.reply, ticket_id |-> ticket_id, closed |-> FALSE,
                    raised |-> FALSE]
        /\ UNCHANGED <<SESSION_CACHE, customers, messages, trail, calls, served, pol, scan>>

\* one caller and the desk
NextDesk ==
    \/ \E user_text \in OrderTexts, email \in Emails :
          ChatTurn("s1", user_text, email, AdvDown)
    \/ \E ticket_id \in 1..(MaxTickets + 1), status \in DeskStatuses :
          UpdateTicket(ticket_id, status)

SpecDesk == Init /\ [][NextDesk]_vars

\* one caller who types order ids in either case
NextCase ==
    \E user_text \in CaseTexts, email \in Emails :
       ChatTurn("s1", user_text, email, AdvDown)

SpecCase == Init /\ [][NextCase]_vars

(***************************************************************************)
(* The ingest served by two threads of the server.  Every ticketing.py     *)
(* function opens its own connection and commits when it returns, so a     *)
(* request is a sequence of separate transactions: the SELECT and the      *)
(* INSERT of get_or_create_customer, find_open_ticket_by_order, and then   *)
(* append_message or create_ticket.  chat_turn reaches the store by the    *)
(* same calls (agent.py lines 264-276).                                    *)
(***************************************************************************)
IngestBegin(t, user_email, order_id) ==
    /\ calls[t].pc = "idle"
    /\ served < MaxServed
    /\ served' = served + 1
    /\ calls' = [calls EXCEPT ![t] = [pc |-> "select", email |-> user_email,
                                      order |-> order_id, customer_id |-> 0,
                                      existing |-> 0]]
    /\ UNCHANGED <<SESSION_CACHE, customers, tickets, messages, last, trail, pol, scan>>

\* SELECT id FROM customers WHERE email = ?
IngestSelectCustomer(t) ==
    LET known == {i \in 1..Len(customers) : customers[i].email = calls[t].email}
    IN  /\ calls[t].pc = "select"
        /\ calls' = [calls EXCEPT ![t] =
                        IF known # {} THEN [@ EXCEPT !.pc = "find", !.customer_id = SetMin(known)]
                        ELSE [@ EXCEPT !.pc = "insert"]]
        /\ UNCHANGED <<SESSION_CACHE, customers, tickets, messages, last, trail, served, pol, scan>>

\* INSERT INTO customers: email is UNIQUE, so the insert of an address that
\* another request has inserted meanwhile raises sqlite3.IntegrityError
IngestInsertCustomer(t) ==
    /\ calls[t].pc = "insert"
    /\ IF \E i \in 1..Len(customers) : customers[i].email = calls[t].email
       THEN /\ calls' = [calls EXCEPT ![t].pc = "raised"]
            /\ UNCHANGED customers
       ELSE /\ Len(customers) < MaxCustomers
            /\ customers' = Append(customers, [email |-> calls[t].email, name |-> None])
            /\ calls' = [calls EXCEPT ![t].pc = "find",
                                      ![t].customer_id = Len(customers) + 1]
    /\ UNCHANGED <<SESSION_CACHE, tickets, messages, last, trail, served, pol, scan>>

\* the request that raised ends with an error response
IngestAbort(t) ==
    /\ calls[t].pc = "raised"
    /\ calls' = [calls EXCEPT ![t] = NoCall]
    /\ last' = [op |-> "ingest", sid |-> None, text |-> IngestText, fresh |-> FALSE,
                reply |-> "raised_integrity_error", ticket_id |-> 0, closed |-> FALSE,
                raised |-> TRUE]
    /\ UNCHANGED <<SESSION_CACHE, customers, tickets, messages, trail, served, pol, scan>>

\* if order: existing = find_open_ticket_by_order(customer_id, order)
IngestFind(t) ==
    /\ calls[t].pc = "find"
    /\ calls' = [calls EXCEPT ![t].pc = "act",
                              ![t].existing =
                                  IF calls[t].order # None
                                  THEN find_open_ticket_by_order(Store, calls[t].customer_id,
                                                                 calls[t].order)
                                  ELSE 0]
    /\ UNCHANGED <<SESSION_CACHE, customers, tickets, messages, last, trail, served, pol, scan>>

\* append_message(existing, ...) or create_ticket(...), then the response
IngestActed(t, c, db) ==
        /\ c.pc = "act"
        /\ WithinBounds(db)
        /\ tickets' = db.tickets
        /\ messages' = db.messages
        /\ calls' = [calls EXCEPT ![t] = NoCall]
        /\ last' = [op |-> "ingest", sid |-> None, text |-> IngestText, fresh |-> FALSE,
                    reply |-> IF c.existing # 0 THEN "ingest_appended" ELSE "ingest_created",
                    ticket_id |-> IF c.existing # 0 THEN c.existing ELSE Len(tickets) + 1,
                    closed |-> FALSE, raised |-> FALSE]
        /\ UNCHANGED <<SESSION_CACHE, customers, trail, served, pol, scan>>

IngestAct(t) ==
    IngestActed(t, calls[t],
                IF calls[t].existing # 0
                THEN append_message(Store, calls[t].existing, "user", Take(IngestText, 2000))
                ELSE create_ticket(Store, calls[t].customer_id, calls[t].order,
                                   Normalized("defect"), Take(IngestText, 1000), "chat").db)

NextRace ==
    \E t \in Threads :
       \/ \E user_email \in IngestEmails, order_id \in IngestOrders :
             IngestBegin(t, user_email, order_id)
       \/ IngestSelectCustomer(t)
       \/ IngestInsertCustomer(t)
       \/ IngestAbort(t)
       \/ IngestFind(t)
       \/ IngestAct(t)

SpecRace == Init /\ [][NextRace]_vars

(***************************************************************************)
(* policy.py on its own: one call of is_allowed on a drawn label and       *)
(* status.                                                                 *)
(***************************************************************************)
InitPolicy ==
    /\ InitStore
    /\ pol \in {[label |-> l, status |-> st, code |-> None, allowed |-> FALSE, done |-> FALSE] :
                  l \in PolicyLabels, st \in PolicyStatuses}
    /\ scan = NoScan

CheckAllowed ==
    /\ ~pol.done
    /\ pol' = [pol EXCEPT !.code = normalize_issue(pol.label),
                          !.allowed = is_allowed(pol.label, pol.status),
                          !.done = TRUE]
    /\ UNCHANGED <<SESSION_CACHE, customers, tickets, messages, last, trail, calls, served, scan>>

NextPolicy == CheckAllowed

SpecPolicy == InitPolicy /\ [][NextPolicy]_vars

\* policy.py on its own, asked about the synonyms of its own table
Synonyms == UNION {pairs[r][1] : r \in 1..Len(pairs)}

InitSynonym ==
    /\ InitStore
    /\ pol \in {[label |-> l, status |-> st, code |-> None, allowed |-> FALSE, done |-> FALSE] :
                  l \in Synonyms, st \in {"PACKED", "DELIVERED"}}
    /\ scan = NoScan

NextSynonym == CheckAllowed

SpecSynonym == InitSynonym /\ [][NextSynonym]_vars

(***************************************************************************)
(* Properties of is_allowed, checked under SpecPolicy.                     *)
(***************************************************************************)
\* the codes is_allowed ties to a stage of the order
StageGated == {"ADDRESS_CHANGE", "CANCELLATION", "DEFECTIVE_ITEM", "WRONG_ITEM",
               "MISSING_ITEM", "DAMAGED_IN_TRANSIT"}

\* C10, as the specification words it: on a CANCELLED order is_allowed is
\* false whatever the issue code.
C10_AsStated ==
    (pol.done /\ pol.status = "CANCELLED") => ~pol.allowed

\* C10, as the code has it: on an order whose status normalises to CANCELLED
\* is_allowed is false exactly for the stage-gated codes (address change,
\* cancellation, defective, wrong, missing, damaged in transit) and true for
\* every other code; no status rejects every code.
C10_Cancelled ==
    (pol.done /\ _norm_status(pol.status) = "CANCELLED")
        => (pol.allowed <=> pol.code \notin StageGated)

\* a cancelled order was asked about for a defective item and was refused
C10_Witness ==
    /\ pol.done
    /\ pol.status = "CANCELLED"
    /\ pol.label = "DEFECTIVE_ITEM"
    /\ ~pol.allowed

\* C11: for each of the always-allowed codes is_allowed is true on every
\* order status, known, unknown, empty or absent.
C11_AlwaysAllowed ==
    (pol.done /\ pol.label \in ALWAYS) => pol.allowed

\* cash on delivery was asked about on a cancelled order and was allowed
C11_Witness ==
    /\ pol.done
    /\ pol.label = "CASH_ON_DELIVERY"
    /\ pol.status = "CANCELLED"
    /\ pol.allowed

C13_AsStated ==
    (pol.done /\ pol.label \in {"MISSING_ITEM", "DAMAGED_IN_TRANSIT"})
        => (pol.allowed <=> _norm_status(pol.status) \in IN_TRANSIT \cup POST_DELIV)

\* C14, as the specification words it: on a status that is empty, absent or
\* in none of the three stages, is_allowed is true for every code but
\* ADDRESS_CHANGE and CANCELLATION.
C14_AsStated ==
    (pol.done /\ _norm_status(pol.status) \notin PRE_DISPATCH \cup IN_TRANSIT \cup POST_DELIV)
        => (pol.allowed <=> pol.code \notin {"ADDRESS_CHANGE", "CANCELLATION"})

\* C15, as the specification words it: the code normalize_issue returns for
\* a label normalises to itself.
C15_AsStated ==
    pol.done => normalize_issue(pol.code) = pol.code

(***************************************************************************)
(* Properties of the ticket paths, checked under SpecOrders.               *)
(***************************************************************************)
CoreIntents == {"defect", "wrong_item", "missing_item"}

CodeOf(type) ==
    IF type = "defect" THEN "DEFECTIVE_ITEM"
    ELSE IF type = "wrong_item" THEN "WRONG_ITEM" ELSE "MISSING_ITEM"

\* no goodbye, thanks or end token in the message
Partings ==
    {t \in Texts : Seen(t).ends \/ ContainsAny(Seen(t).tl, BYE_TOKENS)}

NoEndToken(user_text) == user_text \notin Partings

\* the turn l opened a session with a defect report that names a delivered
\* order
DefectPlea(l) ==
    /\ l.op = "chat"
    /\ l.fresh
    /\ Seen(l.text).intent.type = "defect"
    /\ Seen(l.text).intent.order_id # None
    /\ get_order_status(Seen(l.text).intent.order_id) = "DELIVERED"
    /\ NoEndToken(l.text)
    /\ ~Seen(l.text).open_ticket

\* the step created exactly one ticket, a DEFECTIVE_ITEM one for the order of
\* the message, and the turn returned its id
FiledDefect ==
    /\ Len(tickets') = Len(tickets) + 1
    /\ tickets'[Len(tickets')].issue_type = "DEFECTIVE_ITEM"
    /\ tickets'[Len(tickets')].order_id = Seen(last'.text).intent.order_id
    /\ last'.ticket_id = Len(tickets')

\* C1, as the specification words it: a first message of a session that is
\* a defect report naming a DELIVERED order creates exactly one
\* DEFECTIVE_ITEM ticket for that order and returns its id.
C1_AsStated ==
    [][DefectPlea(last') => FiledDefect]_vars

\* C1, as the code has it: the same, when the message is more than a bare
\* order token and the customer of the turn has no non-closed ticket for
\* that order already.
C1_FirstDefect ==
    [][(/\ DefectPlea(last')
        /\ Seen(last'.text).bare_order = None
        /\ OpenTicketsFor(Store, SESSION_CACHE'[last'.sid].customer_id,
                          Seen(last'.text).intent.order_id) = {})
       => FiledDefect]_vars

\* a session opened with the defect report and got the new ticket's id back
C1_Witness ==
    /\ last.op = "chat"
    /\ last.fresh
    /\ last.text = "I got a defective item, order ORDL123"
    /\ last.reply = "created_ticket"
    /\ last.ticket_id = Len(tickets)
    /\ last.ticket_id > 0
    /\ tickets[last.ticket_id].issue_type = "DEFECTIVE_ITEM"
    /\ tickets[last.ticket_id].order_id = "ORDL123"

\* the order a turn of session sid with message user_text is about: the id in
\* the message, else the one the session remembers
OrderInPlay(sid, user_text) ==
    IF Seen(user_text).intent.order_id # None THEN Seen(user_text).intent.order_id
    ELSE SESSION_CACHE[sid].order_id

\* the turn l is a ticketable complaint in a session whose customer already
\* has a non-closed ticket for the order in play
Recomplaint(l) ==
    /\ l.op = "chat"
    /\ l.sid \in DOMAIN SESSION_CACHE
    /\ Seen(l.text).intent.type \in CoreIntents
    /\ SESSION_CACHE[l.sid].customer_id # 0
    /\ OrderInPlay(l.sid, l.text) # None
    /\ OpenTicketsFor(Store, SESSION_CACHE[l.sid].customer_id,
                      OrderInPlay(l.sid, l.text)) # {}

\* the tickets, closed or not, of a customer for an order
TicketsFor(rows, customer_id, order_id) ==
    {i \in 1..Len(rows) : rows[i].customer_id = customer_id /\ rows[i].order_id = order_id}

\* the step made no ticket, added the message to the existing one and the
\* turn returned that ticket's id
Appended ==
    LET existing == SetMin(OpenTicketsFor(Store, SESSION_CACHE[last'.sid].customer_id,
                                          OrderInPlay(last'.sid, last'.text)))
    IN  /\ Len(tickets') = Len(tickets)
        /\ messages' = Append(messages, [ticket_id |-> existing, role |-> "user",
                                         text |-> last'.text])
        /\ last'.ticket_id = existing

\* C2, as the specification words it: a ticketable complaint about an order
\* for which the customer has a non-closed ticket makes no new ticket, adds
\* the message to that ticket, returns its id, and the customer has one
\* ticket for the order.
C2_AsStated ==
    [][Recomplaint(last') =>
         /\ Appended
         /\ Cardinality(TicketsFor(tickets', SESSION_CACHE[last'.sid].customer_id,
                                   OrderInPlay(last'.sid, last'.text))) = 1]_vars

\* C2, as the code has it: the same append, when the session is not waiting
\* for an e-mail address, the message has no goodbye, thanks or end token and
\* is more than a bare order token, and the status of the order allows the
\* issue code; the number of tickets of the customer for the order does not
\* change.
C2_Append ==
    [][(/\ Recomplaint(last')
        /\ ~SESSION_CACHE[last'.sid].awaiting_human_email
        /\ NoEndToken(last'.text)
        /\ Seen(last'.text).bare_order = None
        /\ get_order_status(OrderInPlay(last'.sid, last'.text)) # None
        /\ is_allowed(CodeOf(Seen(last'.text).intent.type),
                      get_order_status(OrderInPlay(last'.sid, last'.text))))
       => /\ Appended
          /\ TicketsFor(tickets', SESSION_CACHE[last'.sid].customer_id,
                        OrderInPlay(last'.sid, last'.text))
               = TicketsFor(tickets, SESSION_CACHE[last'.sid].customer_id,
                            OrderInPlay(last'.sid, last'.text))]_vars

\* a session complained twice about one order: one ticket, two messages, the
\* second turn returned the ticket of the first
C2_Witness ==
    /\ last.op = "chat"
    /\ ~last.fresh
    /\ last.reply = "created_ticket"
    /\ Len(tickets) = 1
    /\ Len(messages) = 2
    /\ messages[2].ticket_id = last.ticket_id
    /\ messages[2].text = last.text
    /\ last.ticket_id = 1

\* C3: served one at a time, and with no status edited, a customer never has
\* two non-closed tickets for the same order.
C3_OneOpenTicket ==
    \A c \in 1..Len(customers) :
        \A o \in {tickets[i].order_id : i \in 1..Len(tickets)} \ {None} :
            Cardinality(OpenTicketsFor(Store, c, o)) <= 1

\* a second message about an order went to the ticket the order already had
C3_Witness ==
    \E m \in 1..Len(messages) :
        /\ m > 1
        /\ tickets[messages[m].ticket_id].order_id # None
        /\ \E k \in 1..(m - 1) : messages[k].ticket_id = messages[m].ticket_id

(***************************************************************************)
(* Two requests in flight at once, checked under SpecRace.                 *)
(***************************************************************************)
\* C4, as the specification words it: however two concurrent requests for
\* one customer and one order interleave, they never both create a ticket:
\* no two non-closed tickets share a customer and a non-null order id.
C4_AsStated ==
    \A i \in 1..Len(tickets) : \A j \in 1..Len(tickets) :
        (/\ i < j
         /\ tickets[i].customer_id = tickets[j].customer_id
         /\ tickets[i].order_id = tickets[j].order_id
         /\ tickets[i].order_id # None
         /\ tickets[i].status # "closed")
        => tickets[j].status = "closed"

(***************************************************************************)
(* Properties of the conversation, checked under SpecTalk.                 *)
(***************************************************************************)
\* the messages with a goodbye or thanks token, or of intent bye
Farewells ==
    {t \in Texts : \/ Seen(t).intent.type = "bye"
                   \/ ContainsAny(Seen(t).tl, BYE_TOKENS \cup THANKS_TOKENS)}

\* C5, as the specification words it: a turn of intent bye, or with a goodbye
\* or thanks token in its text, drops the session and returns the farewell
\* whatever else is pending or in the message, and creates no ticket.
C5_AsStated ==
    [][(last'.op = "chat" /\ last'.text \in Farewells)
       => /\ last'.reply = "farewell"
          /\ last'.closed
          /\ last'.sid \notin DOMAIN SESSION_CACHE'
          /\ tickets' = tickets]_vars

\* the session of the turn l was waiting for an e-mail address
Awaiting(l) ==
    /\ l.op = "chat"
    /\ l.sid \in DOMAIN SESSION_CACHE
    /\ SESSION_CACHE[l.sid].awaiting_human_email

\* C6, as the specification words it: while the session waits for an e-mail
\* address, every turn whose text holds a valid address resolves the
\* customer of that address, creates or appends a ticket for a human agent,
\* clears the flag and returns the ticket's id.
C6_AsStated ==
    [][(Awaiting(last') /\ Seen(last'.text).email # None)
       => /\ last'.ticket_id \in 1..Len(tickets')
          /\ customers'[tickets'[last'.ticket_id].customer_id].email
               = Seen(last'.text).email
          /\ last'.sid \in DOMAIN SESSION_CACHE'
          /\ ~SESSION_CACHE'[last'.sid].awaiting_human_email]_vars

\* C7, as the specification words it: while the session waits for an e-mail
\* address, a turn whose text holds no valid address gets the re-prompt and
\* changes nothing: the facts of the session, order id and flag included,
\* and the store stay as they were.
C7_AsStated ==
    [][(Awaiting(last') /\ Seen(last'.text).email = None)
       => /\ last'.reply = "ask_email_again"
          /\ SESSION_CACHE' = SESSION_CACHE
          /\ customers' = customers
          /\ tickets' = tickets
          /\ messages' = messages]_vars

\* the replies that end with the offer to open a ticket
TicketOffers == {"faq_answer_offer", "llm_faq_answer"}

\* C8, as the specification words it: after a turn that offered a ticket, a
\* "no" creates no ticket, and a "thanks" or an empty message after that ends
\* the session.
C8_AsStated ==
    \A s \in SessionIds :
        LET n == Len(trail[s])
        IN  (/\ n >= 3
             /\ trail[s][n - 2].reply \in TicketOffers
             /\ trail[s][n - 1].text = "no"
             /\ trail[s][n].text \in {"thanks", ""})
            => /\ ~trail[s][n - 1].created
               /\ trail[s][n].closed

\* the replies of the generic help
GenericReplies == {"generic", "generic_escalated"}

\* the variants a repeated reply switches to: each offers a human agent
Escalations ==
    {"generic_escalated", "ask_issue_after_ordl_escalated",
     "ask_issue_after_bare_ordl_escalated", "offer_human_no_ordl",
     "llm_offer_human_no_ordl"}

\* the latest three turns of session s carried one message, the advisor
\* unavailable or below its threshold on each
ThriceUnheard(s) ==
    LET n == Len(trail[s])
    IN  /\ n >= 3
        /\ trail[s][n - 2].text = trail[s][n].text
        /\ trail[s][n - 1].text = trail[s][n].text
        /\ \A k \in (n - 2)..n : trail[s][k].quiet

FactsOf(sid) == IF sid \in DOMAIN SESSION_CACHE THEN SESSION_CACHE[sid] ELSE EmptyFacts

\* the order id a turn of session sid with message user_text works on
OrderOf(sid, user_text) ==
    IF Seen(user_text).intent.order_id # None THEN Seen(user_text).intent.order_id
    ELSE FactsOf(sid).order_id

\* the turn l comes to weigh an issue code against the status of a known
\* order, and is_allowed refuses it: a bare order id while the session
\* remembers an issue code, or a defect, wrong-item or missing-item message
\* with an order id in play
RefusedByPolicy(l) ==
    /\ l.op = "chat"
    /\ Seen(l.text).intent.type \notin {"greet", "bye"}
    /\ ~Seen(l.text).ends
    /\ ~FactsOf(l.sid).awaiting_human_email
    /\ \/ /\ Seen(l.text).bare_order # None
          /\ FactsOf(l.sid).last_issue_code # None
          /\ get_order_status(Seen(l.text).bare_order) # None
          /\ ~is_allowed(FactsOf(l.sid).last_issue_code,
                         get_order_status(Seen(l.text).bare_order))
       \/ /\ Seen(l.text).bare_order = None
          /\ ~Seen(l.text).open_ticket
          /\ Seen(l.text).intent.type \in CoreIntents
          /\ OrderOf(l.sid, l.text) # None
          /\ get_order_status(OrderOf(l.sid, l.text)) # None
          /\ ~is_allowed(CodeOf(Seen(l.text).intent.type),
                         get_order_status(OrderOf(l.sid, l.text)))

\* the replies that explain that the issue is not available at this stage
\* of the order and offer a human or alternatives
Refusals == {"bare_not_allowed", "not_allowed", "not_allowed_defect", "llm_not_allowed"}

\* C19: a turn that weighs an issue code against an order whose status does
\* not allow it answers with the explanation that offers a human or
\* alternatives, and a turn that gives that answer creates no ticket,
\* appends to none and returns no ticket id.
C19_Refused ==
    [][/\ RefusedByPolicy(last') => last'.reply \in Refusals
       /\ (last'.op = "chat" /\ last'.reply \in Refusals)
              => (/\ tickets' = tickets
                  /\ messages' = messages
                  /\ last'.ticket_id = 0)]_vars

\* a broken item was reported for an order still being packed; the turn
\* explained the refusal and the store holds no ticket
C19_Witness ==
    /\ last.op = "chat"
    /\ last.text = "broken item ORDL456"
    /\ last.reply = "not_allowed"
    /\ last.ticket_id = 0
    /\ tickets = <<>>
    /\ messages = <<>>

\* C20, as the specification words it: no turn creates a ticket for an order
\* id the orders table does not hold, or appends to one.
C20_AsStated ==
    [][last'.op = "chat" =>
         \A i \in 1..Len(tickets') :
            (/\ tickets'[i].order_id # None
             /\ get_order_status(tickets'[i].order_id) = None)
                => (/\ i <= Len(tickets)
                    /\ tickets'[i] = tickets[i]
                    /\ \A m \in (Len(messages) + 1)..Len(messages') :
                           messages'[m].ticket_id # i)]_vars

\* C21, as the specification words it: every chat turn ends by returning a
\* reply and at most one ticket id, whatever the advisor does, and creates at
\* most one ticket.
C21_AsStated ==
    [][last'.op = "chat" =>
         /\ ~last'.raised
         /\ last'.reply # None
         /\ Len(tickets') <= Len(tickets) + 1]_vars

\* the tickets a chat turn creates for a stage-gated code and an order id
\* passed is_allowed for the status of that order
CreatedWithinPolicy ==
    \A i \in (Len(tickets) + 1)..Len(tickets') :
        (tickets'[i].issue_type \in StageGated /\ tickets'[i].order_id # None)
            => is_allowed(tickets'[i].issue_type, get_order_status(tickets'[i].order_id))

\* a turn that appends to an open ticket under the code the session
\* remembers, on a bare order id, or that files under the code of its own
\* intent, passed is_allowed for that code and the status of the order
AppendedWithinPolicy ==
    /\ last'.reply = "bare_updated"
           => is_allowed(FactsOf(last'.sid).last_issue_code,
                         get_order_status(Seen(last'.text).bare_order))
    /\ last'.reply = "created_ticket"
           => is_allowed(CodeOf(Seen(last'.text).intent.type),
                         get_order_status(OrderOf(last'.sid, last'.text)))

\* C22, as the specification words it: whatever ticket a chat turn creates
\* or appends to under a stage-gated code and an order id, is_allowed held
\* for that code and the status of the order, the open-a-ticket phrase with
\* its remembered code included.
C22_AsStated ==
    [][last'.op = "chat" =>
         /\ CreatedWithinPolicy
         /\ AppendedWithinPolicy
         /\ (/\ last'.reply = "opened_ticket"
             /\ FactsOf(last'.sid).last_issue_code \in StageGated
             /\ OrderOf(last'.sid, last'.text) # None)
                => is_allowed(FactsOf(last'.sid).last_issue_code,
                              get_order_status(OrderOf(last'.sid, last'.text)))]_vars

\* C22, as the code has it: is_allowed held for every ticket a turn creates
\* or appends to under a stage-gated code and an order id on the bare-order
\* path, the core intents and the advisor path; the open-a-ticket phrase
\* files under the remembered code without asking is_allowed.
C22_GatedPaths ==
    [][(last'.op = "chat" /\ last'.reply # "opened_ticket") =>
         /\ CreatedWithinPolicy
         /\ AppendedWithinPolicy]_vars

\* a defect was reported without an order id, the bare id of a delivered
\* order followed, and the turn filed the defect ticket for it
C22_Witness ==
    /\ last.op = "chat"
    /\ last.text = "ORDL123"
    /\ last.reply = "bare_created"
    /\ last.ticket_id # 0
    /\ tickets[last.ticket_id].issue_type = "DEFECTIVE_ITEM"
    /\ tickets[last.ticket_id].order_id = "ORDL123"
    /\ is_allowed("DEFECTIVE_ITEM", get_order_status("ORDL123"))

\* the tickets the step wrote a message to: the one it created or appended to
Touched == {messages'[m].ticket_id : m \in (Len(messages) + 1)..Len(messages')}

\* C23, as the specification words it: a turn that creates a ticket or
\* appends to one returns the id of that ticket, and a turn that returns a
\* ticket id created or appended to that ticket and no other.
C23_AsStated ==
    [][last'.op = "chat" =>
         Touched = IF last'.ticket_id = 0 THEN {} ELSE {last'.ticket_id}]_vars

\* C24, as the specification words it: among the tickets one session
\* created, at most one per order id is not closed, also when the session
\* captures a contact email after it filed a ticket for the order.  A
\* customer row without email belongs to the session that inserted it, so the
\* tickets under it are tickets of that session: a turn of the session then
\* creates no ticket for an order that has a non-closed ticket under that row.
C24_AsStated ==
    [][last'.op = "chat" =>
         LET mine == FactsOf(last'.sid).customer_id
         IN  \A i \in (Len(tickets) + 1)..Len(tickets') :
                \A j \in 1..Len(tickets) :
                    ~(/\ mine # 0
                      /\ customers[mine].email = None
                      /\ tickets[j].customer_id = mine
                      /\ tickets[j].status # "closed"
                      /\ tickets'[i].order_id # None
                      /\ tickets[j].order_id = tickets'[i].order_id)]_vars

\* the replies of the core intents (lines 429-446)
CoreReplies == {"ask_ordl", "offer_human_no_ordl", "order_not_found", "not_allowed",
                "created_ticket"}

\* C25, as the specification words it: a message that names a defect, a
\* wrong item or a missing item and also holds an open-a-ticket phrase is
\* handled as the issue it names, order status and eligibility checked and
\* the ticket filed under the code of that issue, before the open-a-ticket
\* phrase is considered.
C25_AsStated ==
    [][(/\ last'.op = "chat"
        /\ ~FactsOf(last'.sid).awaiting_human_email
        /\ Seen(last'.text).bare_order = None
        /\ ~Seen(last'.text).ends
        /\ Seen(last'.text).intent.type \in CoreIntents
        /\ Seen(last'.text).open_ticket)
          => /\ last'.reply \in CoreReplies
             /\ \A i \in (Len(tickets) + 1)..Len(tickets') :
                    tickets'[i].issue_type = CodeOf(Seen(last'.text).intent.type)]_vars

\* C26, as the specification words it: a turn whose intent is human either
\* creates no ticket, sets awaiting_human_email and asks for an email (no
\* contact email on file), or creates or appends to one HUMAN_ASSISTANCE
\* ticket and leaves awaiting_human_email unset (a contact email on file).
C26_AsStated ==
    [][(/\ last'.op = "chat"
        /\ ~FactsOf(last'.sid).awaiting_human_email
        /\ Seen(last'.text).bare_order = None
        /\ ~Seen(last'.text).ends
        /\ Seen(last'.text).intent.type = "human")
          => \/ /\ tickets' = tickets
                /\ messages' = messages
                /\ last'.reply = "ask_email"
                /\ SESSION_CACHE'[last'.sid].awaiting_human_email
             \/ /\ Len(messages') = Len(messages) + 1
                /\ Len(tickets') <= Len(tickets) + 1
                /\ \A i \in (Len(tickets) + 1)..Len(tickets') :
                       tickets'[i].issue_type = "HUMAN_ASSISTANCE"
                /\ last'.reply \in {"human_requested", "human_added_to_existing"}
                /\ ~SESSION_CACHE'[last'.sid].awaiting_human_email]_vars

\* the text the bare-order path files: the complaint the session remembers
PendingText(sid) ==
    IF FactsOf(sid).pending_issue_text # None THEN FactsOf(sid).pending_issue_text
    ELSE "Auto-created from prior complaint."

ReachesAdvisor(l) ==
    /\ l.op = "chat"
    /\ Seen(l.text).intent.type = "fallback"
    /\ ~Seen(l.text).ends
    /\ ~FactsOf(l.sid).awaiting_human_email
    /\ Seen(l.text).bare_order = None
    /\ ~Seen(l.text).open_ticket
    /\ ~(OrderOf(l.sid, l.text) # None /\ ~Seen(l.text).issue_hint)
    /\ ~Seen(l.text).defect_word

\* C28, as the specification words it, for the advisors of SpecParting, which
\* answer bye with confidence 0.7 or more: the intent is acted on, so the
\* turn parts and the session is dropped.
C28_AsStated ==
    [][ReachesAdvisor(last') =>
          /\ last'.reply = "farewell"
          /\ last'.closed
          /\ last'.sid \notin DOMAIN SESSION_CACHE']_vars

\* the repeat-guard key behind a canned reply and its escalation, None for a
\* reply the repeat guard does not count
KeyOf(reply) ==
    CASE reply \in {"generic", "generic_escalated"} -> "generic_help"
      [] reply \in {"ask_issue_after_bare_ordl", "ask_issue_after_bare_ordl_escalated"}
            -> "ask_issue_after_bare_ordl"
      [] reply \in {"ask_issue_after_ordl", "ask_issue_after_ordl_escalated"}
            -> "ask_issue_after_ordl"
      [] reply \in {"ask_ordl", "offer_human_no_ordl"} -> "ask_ordl_for_ticketable"
      [] reply \in {"llm_ask_ordl", "llm_offer_human_no_ordl"} -> "ask_ordl_llm"
      [] OTHER -> None

\* C29, as the specification words it: the repeat count is the number of
\* consecutive turns, the current one included, that gave the same canned
\* reply; a turn answered otherwise in between resets it.  So a canned reply
\* that follows a turn answered otherwise is counted once and is not the
\* escalation.
C29_AsStated ==
    \A s \in SessionIds :
        LET n == Len(trail[s])
        IN  (/\ n >= 2
             /\ s \in DOMAIN SESSION_CACHE
             /\ KeyOf(trail[s][n].reply) # None
             /\ KeyOf(trail[s][n - 1].reply) # KeyOf(trail[s][n].reply))
               => /\ SESSION_CACHE[s]._repeat.count = 1
                  /\ trail[s][n].reply \notin Escalations

\* the replies of the turns that filed the remembered issue
Filings == {"bare_created", "bare_updated", "created_ticket"}

\* turn l is a bare order id in a session that is not waiting for an email
BareTurn(l) ==
    /\ l.op = "chat"
    /\ ~FactsOf(l.sid).awaiting_human_email
    /\ Seen(l.text).bare_order # None

C31_OrderKept ==
    [][last'.op = "chat" =>
         \A s \in DOMAIN SESSION_CACHE :
            (SESSION_CACHE[s].order_id # None /\ s \in DOMAIN SESSION_CACHE')
               => /\ SESSION_CACHE'[s].order_id # None
                  /\ SESSION_CACHE'[s].order_id \in
                        {SESSION_CACHE[s].order_id, Seen(last'.text).intent.order_id,
                         Seen(last'.text).bare_order}]_vars

\* a session that held ORDL456 was sent the bare id ORDL123 and holds that
\* one now
C31_Witness ==
    /\ last.op = "chat"
    /\ last.text = "ORDL123"
    /\ Len(trail["s1"]) >= 2
    /\ trail["s1"][Len(trail["s1"]) - 1].text = "broken item ORDL456"
    /\ ~trail["s1"][Len(trail["s1"]) - 1].closed
    /\ "s1" \in DOMAIN SESSION_CACHE
    /\ SESSION_CACHE["s1"].order_id = "ORDL123"

\* C32: a turn inserts at most one customer row; a turn of a session that
\* holds a customer id, other than the capture of an email for a human
\* request, inserts none and leaves the session with the same customer id.
C32_ResolvedOnce ==
    [][last'.op = "chat" =>
         /\ Len(customers') <= Len(customers) + 1
         /\ (/\ FactsOf(last'.sid).customer_id # 0
             /\ last'.sid \in DOMAIN SESSION_CACHE'
             /\ last'.reply # "human_requested_email")
               => /\ customers' = customers
                  /\ SESSION_CACHE'[last'.sid].customer_id = FactsOf(last'.sid).customer_id]_vars

\* the first turn of the session resolved the customer, a later turn asked
\* for a human with an email passed along, and the ticket went to the
\* customer of the first turn: the store holds that one customer row
C32_Witness ==
    /\ last.op = "chat"
    /\ ~last.fresh
    /\ last.reply = "human_requested"
    /\ Len(customers) = 1
    /\ customers[1].email = None
    /\ Len(tickets) = 1
    /\ tickets[1].customer_id = 1
    /\ SESSION_CACHE["s1"].customer_id = 1

\* the facts with the customer id left out
SansCustomer(facts) == [facts EXCEPT !.customer_id = 0]

\* the facts the turn l leaves when it starts from the facts of its own
\* session alone and a store without rows (the callers of SpecPair pass no
\* email and the advisor is unavailable)
AloneFacts(l) ==
    chat_turn([s \in DOMAIN SESSION_CACHE \cap {l.sid} |-> SESSION_CACHE[s]],
              [customers |-> <<>>, tickets |-> <<>>, messages |-> <<>>],
              l.sid, l.text, None, None, AdvDown).facts

\* C33, as the specification words it: whatever the interleaving of the
\* turns of two sessions, the facts of each are those its own turns give
\* when they run alone.  The sessions of SpecPair never part and pass no
\* email, so a session running alone on the initial store resolves one
\* customer, the first row of the table, and holds customer id 1 from then on.
C33_AsStated ==
    \A s \in DOMAIN SESSION_CACHE : SESSION_CACHE[s].customer_id \in {0, 1}

\* C33, as the code has it: a turn leaves the facts of every other session
\* as they are, and the facts it leaves to its own session, the customer id
\* apart, are those it leaves when it starts from the facts of that session
\* alone and an empty store.  The customer id is the row number the shared
\* store hands out and depends on the turns of the other sessions.
C33_OwnFacts ==
    [][last'.op = "chat" =>
         /\ \A s \in DOMAIN SESSION_CACHE \ {last'.sid} :
               /\ s \in DOMAIN SESSION_CACHE'
               /\ SESSION_CACHE'[s] = SESSION_CACHE[s]
         /\ DOMAIN SESSION_CACHE' \subseteq DOMAIN SESSION_CACHE \cup {last'.sid}
         /\ last'.sid \in DOMAIN SESSION_CACHE'
               => SansCustomer(SESSION_CACHE'[last'.sid]) = SansCustomer(AloneFacts(last'))]_vars

\* two sessions side by side, each with its own order id, issue code and
\* customer
C33_Witness ==
    /\ DOMAIN SESSION_CACHE = {"s1", "s2"}
    /\ SESSION_CACHE["s1"].order_id = "ORDL123"
    /\ SESSION_CACHE["s2"].order_id = "ORDL456"
    /\ SESSION_CACHE["s1"].last_issue_code = None
    /\ SESSION_CACHE["s2"].last_issue_code = "DEFECTIVE_ITEM"
    /\ SESSION_CACHE["s1"].customer_id # SESSION_CACHE["s2"].customer_id
    /\ SESSION_CACHE["s1"].customer_id # 0
    /\ SESSION_CACHE["s2"].customer_id # 0

\* C34, as the specification words it: a turn whose advisor answers below
\* the threshold, or with a fallback, leaves the reply, the facts and the
\* store that the same turn leaves when the advisor is unavailable.
C34_AsStated ==
    [][(/\ last'.op = "chat"
        /\ trail'[last'.sid][Len(trail'[last'.sid])].quiet)
          => \E email \in Emails :
                LET r == chat_turn(SESSION_CACHE, Store, last'.sid, last'.text, email,
                                   None, AdvDown)
                IN  /\ last'.reply = r.reply
                    /\ customers' = r.db.customers
                    /\ tickets' = r.db.tickets
                    /\ messages' = r.db.messages
                    /\ IF r.closed THEN last'.sid \notin DOMAIN SESSION_CACHE'
                       ELSE SESSION_CACHE'[last'.sid] = r.facts]_vars

\* the replies that only answer or prompt: the FAQ answers, the requests for
\* the issue or for the order id, the generic help, and their escalations
AnswersAndPrompts ==
    {"faq_answer_offer", "llm_faq_answer",
     "ask_issue_after_bare_ordl", "ask_issue_after_bare_ordl_escalated",
     "ask_issue_after_ordl", "ask_issue_after_ordl_escalated",
     "ask_ordl", "offer_human_no_ordl", "llm_ask_ordl", "llm_offer_human_no_ordl",
     "generic", "generic_escalated"}

\* C35, as the specification words it: a turn that only answers or prompts
\* writes no customer, ticket or message row.
C35_AsStated ==
    [][(last'.op = "chat" /\ last'.reply \in AnswersAndPrompts)
          => /\ customers' = customers
             /\ tickets' = tickets
             /\ messages' = messages]_vars

\* C36, as the specification words it: whatever chat turns and status changes
\* went before, no customer has two non-closed tickets for one order id.
C36_AsStated ==
    \A i, j \in 1..Len(tickets) :
        (/\ i < j
         /\ tickets[i].customer_id = tickets[j].customer_id
         /\ tickets[i].order_id # None
         /\ tickets[i].order_id = tickets[j].order_id)
           => \/ tickets[i].status = "closed"
              \/ tickets[j].status = "closed"

\* C37, as the specification words it: a turn whose message carries an order
\* token leaves in the facts the value that the same token leaves when it is
\* sent as a bare message, whatever the shape of the message.
C37_AsStated ==
    [][(/\ last'.op = "chat"
        /\ ~last'.raised
        /\ last'.sid \in DOMAIN SESSION_CACHE'
        /\ OrderTokenFirst(last'.text) # None)
          => SESSION_CACHE'[last'.sid].order_id
                = _is_bare_order_message(OrderTokenFirst(last'.text))]_vars

\* C38, as the specification words it: a synonym listed in a row of the
\* normalization table normalizes to the code of that row.
C38_AsStated ==
    pol.done =>
        \A r \in 1..Len(pairs) : pol.label \in pairs[r][1] => pol.code = pairs[r][2]

\* C40: no chat turn reaches the defect fast-path (none of its replies is
\* given and its repeat key is never marked), because a text with one of its
\* words is classified as defect; and a reply that an order could not be
\* found is about an order id the session holds, never about none.
C40_NoNullLookup ==
    (last.op = "chat" /\ ~last.raised) =>
        /\ last.reply \notin {"fast_created", "fast_updated", "not_allowed_defect"}
        /\ Seen(last.text).defect_word => Seen(last.text).intent.type = "defect"
        /\ \A s \in DOMAIN SESSION_CACHE :
               SESSION_CACHE[s]._repeat.key # "ask_ordl_for_defect"
        /\ last.reply \in {"order_not_found", "bare_order_not_found"}
              => /\ last.sid \in DOMAIN SESSION_CACHE
                 /\ SESSION_CACHE[last.sid].order_id # None

\* a report of a broken item from a session with no order id was asked for
\* the order id and no order was looked up
C40_Witness ==
    /\ last.op = "chat"
    /\ last.text = "my item is broken"
    /\ last.reply = "ask_ordl"
    /\ last.sid \in DOMAIN SESSION_CACHE
    /\ SESSION_CACHE[last.sid].order_id = None

(***************************************************************************)
(* agent.py: detect_intent and answer_faq_from_db on their own: one call   *)
(* of either on a drawn text, the matcher over a drawn faq table.          *)
(***************************************************************************)
ScanTexts ==
    {"defective and wrong item",
     "wrong item and missing item",
     "item missing, talk to a human",
     "talk to a human, bye",
     "bye, hello",
     "hi, what is your return policy",
     "Hello",
     "highway",
     "code",
     "asdf",
     "",
     "DEFECTIVE item",
     "thanks bye",
     "my agent needs help",
     "stop sending the wrong item",
     "not received, refund please",
     "this is wrongly billed",
     "I got a defective item, order ORDL123",
     "order ORDL-BROKEN",
     "the ordl77 hi",
     "Order ID: ordl9a-7 is wrong ",
     "my ORDL123- is late",
     "order id: ORDL123- is late",
     "order id: ORDL123 is late",
     "xORDL123",
     "ORDL-",
     "ORDL456",
     "where is my refund",
     "when refund will come",
     "money back",
     "money back refund",
     "billing problem",
     "cash on delivery available?",
     "what is the size chart",
     "the order of it",
     "refund"}

\* a faq table with entries that tie
TieFaqs == <<
    [question |-> "refunds", keywords |-> <<"refund">>],
    [question |-> "money back", keywords |-> <<"refund", "money back">>],
    [question |-> "reversal", keywords |-> <<"money back", "refund">>] >>

\* the faq tables the matcher is run over: the seeded one, one with ties,
\* an empty one
FaqTables == <<FAQS, TieFaqs, <<>> >>

InitText ==
    /\ InitStore
    /\ pol = NoPol
    /\ scan \in {[text |-> t, faqs |-> k, intent |-> None, hit |-> None, pc |-> "drawn"] :
                   t \in ScanTexts, k \in DOMAIN FaqTables}

DetectIntent ==
    /\ scan.pc = "drawn"
    /\ scan' = [scan EXCEPT !.intent = detect_intent(scan.text), !.pc = "detected"]
    /\ UNCHANGED <<SESSION_CACHE, customers, tickets, messages, last, trail, calls, served, pol>>

MatchFaq ==
    /\ scan.pc = "drawn"
    /\ scan' = [scan EXCEPT !.hit = answer_faq_from_db(FaqTables[scan.faqs], scan.text),
                            !.pc = "matched"]
    /\ UNCHANGED <<SESSION_CACHE, customers, tickets, messages, last, trail, calls, served, pol>>

NextText == DetectIntent \/ MatchFaq

SpecText == InitText /\ [][NextText]_vars

(***************************************************************************)
(* Properties of detect_intent and of the FAQ matcher, checked under       *)
(* SpecText.                                                               *)
(***************************************************************************)
\* the intent types in the order detect_intent tests them
IntentOrder ==
    <<"defect", "wrong_item", "missing_item", "human", "bye", "greet", "faq", "fallback">>

\* the intent types whose trigger the lower-cased text t satisfies
Triggered(t) ==
    {c \in {"defect", "wrong_item", "missing_item", "human", "bye", "greet", "faq", "fallback"} :
        \/ c = "defect" /\ ContainsAny(t, DEFECT_TOKENS)
        \/ c = "wrong_item" /\ ContainsAny(t, WRONG_TOKENS)
        \/ c = "missing_item" /\ (\/ ContainsAny(t, MISSING_TOKENS)
                                  \/ (Contains(t, "missing") /\ Contains(t, "item")))
        \/ c = "human" /\ (\/ ContainsAny(t, HUMAN_TOKENS)
                           \/ /\ ContainsAny(t, {"human", "agent", "representative"})
                              /\ ContainsAny(t, {"help", "assist", "assistance", "support",
                                                 "talk", "speak", "connect", "call"}))
        \/ c = "bye" /\ (\/ ContainsAny(t, BYE_TOKENS)
                         \/ (Contains(t, "thanks") /\ Contains(t, "bye")))
        \/ c = "greet" /\ (\E g \in GREET_TOKENS : _contains_phrase(t, g))
        \/ c = "faq" /\ ContainsAny(t, FAQ_TRIGGERS)
        \/ c = "fallback"}

\* C16: the type detect_intent returns is the first, in the fixed order
\* defect, wrong_item, missing_item, human, bye, greet, faq, fallback, of the
\* types whose trigger the text satisfies, however many it satisfies.
C16_FirstWins ==
    scan.pc = "detected" =>
        scan.intent.type =
            IntentOrder[SetMin({i \in DOMAIN IntentOrder :
                                  IntentOrder[i] \in Triggered(Lower(scan.text))})]

\* a text with a defect word and a wrong-item phrase was classified defect
C16_Witness ==
    /\ scan.pc = "detected"
    /\ {"defect", "wrong_item"} \subseteq Triggered(Lower(scan.text))
    /\ scan.intent.type = "defect"

\* where a token ORDL + letters, digits or dashes, set off by word boundaries,
\* starts in the text
TokenStarts(text) == {i \in 1..Len(text) : OrderTokenEndAt(text, i) # 0}

\* C17, as the specification words it: the order id of a text with one such
\* token is that token as typed, whatever the words around it, and the order
\* id of a text without one is null.
C17_AsStated ==
    scan.pc = "detected" =>
        /\ TokenStarts(scan.text) = {} => scan.intent.order_id = None
        /\ Cardinality(TokenStarts(scan.text)) = 1
               => scan.intent.order_id = OrderTokenFirst(scan.text)

\* the score the specification gives an entry: 2 for each keyword of several
\* words contained in the lower-cased query, 1 for each keyword of one word
\* among the tokens of the query
EntryScore(f, query) ==
    2 * Cardinality({i \in DOMAIN f.keywords :
                       Contains(f.keywords[i], " ") /\ Contains(Lower(query), f.keywords[i])})
    + Cardinality({i \in DOMAIN f.keywords :
                     ~Contains(f.keywords[i], " ") /\ f.keywords[i] \in _tokens(query)})

\* C18: the matcher returns no match when every entry scores below 1, and
\* otherwise the question (with its answer) of the first of the entries with
\* the highest score; an entry with a keyword of several words in the query
\* outscores an entry with only one one-word keyword among the tokens.
C18_BestMatch ==
    scan.pc = "matched" =>
        LET faqs == FaqTables[scan.faqs]
            sc == [i \in DOMAIN faqs |-> EntryScore(faqs[i], scan.text)]
        IN  /\ (\A i \in DOMAIN faqs : sc[i] < 1) => scan.hit = None
            /\ (\E i \in DOMAIN faqs : sc[i] >= 1) =>
                   \E i \in DOMAIN faqs :
                       /\ scan.hit = faqs[i].question
                       /\ \A j \in DOMAIN faqs : sc[j] <= sc[i]
                       /\ \A j \in 1..(i - 1) : sc[j] < sc[i]
            /\ \A i, j \in DOMAIN faqs :
                   (/\ \E k \in DOMAIN faqs[i].keywords :
                          /\ Contains(faqs[i].keywords[k], " ")
                          /\ Contains(Lower(scan.text), faqs[i].keywords[k])
                    /\ sc[j] = 1) => sc[i] > sc[j]

\* two entries of the seeded table tied on "billing" and the first was kept
C18_Witness ==
    /\ scan.pc = "matched"
    /\ scan.faqs = 1
    /\ scan.text = "billing problem"
    /\ scan.hit = "payment issues"

(***************************************************************************)
(* agent.py and flask_app.py: the FAQ cache.  _load_faqs is wrapped in     *)
(* lru_cache(maxsize=1): a call reads the faq table unless a result is     *)
(* cached, and the result is cached when the call returns.  faq_upsert     *)
(* commits its rows and then clears the cache.  The server runs its        *)
(* handlers on threads (app.run), so the steps of two requests interleave. *)
(* scan is here the record [table, cache, dirty, pc, held, began, clean,   *)
(* text, op, used, hit].                                                   *)
(***************************************************************************)
\* the characters of the keywords sent, in code point order
Alphabet == " 0123456789abcdefghijklmnopqrstuvwxyz"

Ord(c) == CHOOSE i \in 1..Len(Alphabet) : Char(Alphabet, i) = c

\* a < b for str
RECURSIVE StrLess(_, _)
StrLess(a, b) ==
    IF b = "" THEN FALSE
    ELSE IF a = "" THEN TRUE
    ELSE IF Char(a, 1) # Char(b, 1) THEN Ord(Char(a, 1)) < Ord(Char(b, 1))
    ELSE StrLess(SubSeq(a, 2, Len(a)), SubSeq(b, 2, Len(b)))

\* sorted(S) for a set of str
Sorted(S) ==
    CHOOSE q \in [1..Cardinality(S) -> S] :
        \A i, j \in 1..Cardinality(S) : i < j => StrLess(q[i], q[j])

\* flask_app.py lines 320-325 and agent.py line 122: the keywords of an item
\* as faq_upsert stores them and _load_faqs reads them back
StoredKeywords(kws) ==
    Sorted({Lower(Strip(kws[i])) : i \in {j \in 1..Len(kws) : Strip(kws[j]) # ""}})

\* the items faq_upsert is sent, one a request: new keywords for a seeded
\* question, a new question, an item with no answer
UpsertItems ==
    {[question |-> "refund timelines", answer |-> "5-7 days", keywords |-> <<"Refund">>],
     [question |-> "gift cards", answer |-> "Yes", keywords |-> <<"voucher", " gift card">>],
     [question |-> "gift cards", answer |-> "", keywords |-> <<"gift">>]}

\* flask_app.py lines 310-339: an item with no question or no answer is
\* skipped; the row of the question is updated, or a row is added
UpsertRow(table, f) ==
    IF Strip(f.question) = "" \/ Strip(f.answer) = "" THEN table
    ELSE LET row == [question |-> Strip(f.question), keywords |-> StoredKeywords(f.keywords)]
             at == {i \in 1..Len(table) : table[i].question = row.question}
         IN  IF at # {} THEN [table EXCEPT ![SetMin(at)] = row]
             ELSE Append(table, row)

FaqQueries == {"money back", "do you have a gift card"}

InitFaq ==
    /\ InitStore
    /\ pol = NoPol
    /\ scan = [table |-> FAQS, cache |-> None, dirty |-> FALSE,
               pc |-> [t \in Threads |-> "idle"],
               held |-> [t \in Threads |-> None],
               began |-> [t \in Threads |-> FALSE],
               text |-> [t \in Threads |-> None],
               op |-> "init", clean |-> FALSE, fresh |-> None, used |-> None, hit |-> None]

\* agent.py lines 129-134 with a cached result: answer_faq_from_db on the
\* entries of the cache
MatchCached(t, query) ==
    /\ scan.pc[t] = "idle"
    /\ scan.cache # None
    /\ scan' = [scan EXCEPT !.op = "match", !.clean = ~scan.dirty, !.fresh = scan.table,
                            !.used = scan.cache,
                            !.hit = answer_faq_from_db(scan.cache, query)]
    /\ UNCHANGED <<SESSION_CACHE, customers, tickets, messages, last, trail, calls, served, pol>>

\* agent.py lines 116-119 with nothing cached: _load_faqs reads the table
FaqSelect(t, query) ==
    /\ scan.pc[t] = "idle"
    /\ scan.cache = None
    /\ scan' = [scan EXCEPT !.op = "select", !.pc[t] = "loading", !.held[t] = scan.table,
                            !.began[t] = ~scan.dirty, !.text[t] = query]
    /\ UNCHANGED <<SESSION_CACHE, customers, tickets, messages, last, trail, calls, served, pol>>

\* agent.py lines 114, 124 and 134-146: _load_faqs returns, lru_cache keeps
\* the result unless another call has stored one meanwhile, and the match is
\* computed on the rows this call read
FaqLoaded(t) ==
    /\ scan.pc[t] = "loading"
    /\ scan' = [scan EXCEPT !.op = "match", !.pc[t] = "idle", !.held[t] = None,
                            !.text[t] = None, !.began[t] = FALSE,
                            !.cache = IF @ = None THEN scan.held[t] ELSE @,
                            !.clean = scan.began[t], !.fresh = scan.held[t],
                            !.used = scan.held[t],
                            !.hit = answer_faq_from_db(scan.held[t], scan.text[t])]
    /\ UNCHANGED <<SESSION_CACHE, customers, tickets, messages, last, trail, calls, served, pol>>

\* flask_app.py lines 308-339: the rows are written and committed
FaqUpsertWrite(t, f) ==
    /\ scan.pc[t] = "idle"
    /\ scan' = [scan EXCEPT !.op = "write", !.pc[t] = "written", !.dirty = TRUE,
                            !.table = UpsertRow(scan.table, f)]
    /\ UNCHANGED <<SESSION_CACHE, customers, tickets, messages, last, trail, calls, served, pol>>

\* flask_app.py line 341 and agent.py lines 126-127: the cache is cleared
FaqUpsertRefresh(t) ==
    /\ scan.pc[t] = "written"
    /\ scan' = [scan EXCEPT !.op = "refresh", !.pc[t] = "idle", !.dirty = FALSE,
                            !.cache = None]
    /\ UNCHANGED <<SESSION_CACHE, customers, tickets, messages, last, trail, calls, served, pol>>

NextFaq ==
    \E t \in Threads :
       \/ \E query \in FaqQueries : MatchCached(t, query)
       \/ \E query \in FaqQueries : FaqSelect(t, query)
       \/ FaqLoaded(t)
       \/ \E f \in UpsertItems : FaqUpsertWrite(t, f)
       \/ FaqUpsertRefresh(t)

SpecFaq == InitFaq /\ [][NextFaq]_vars

(***************************************************************************)
(* Properties of the FAQ cache, checked under SpecFaq.                     *)
(***************************************************************************)
\* C39, as the specification words it: a match made when every upsert so far
\* has been followed by the cache-invalidation hook is computed against the
\* entries of the table as the upserts left it.
C39_AsStated ==
    (scan.op = "match" /\ scan.clean) => scan.used = scan.fresh

=============================================================================
